---- MODULE Spec2Model ----
(***************************************************************************)
(* The query pipeline of the Jira assistant server: the JQL sanitizer, the *)
(* intent classifier, the JQL synthesizer and the /api/query handler with  *)
(* its fallback chain and its session memory.                              *)
(*                                                                         *)
(* Texts are TLA+ strings; a character is a string of length one.          *)
(***************************************************************************)
EXTENDS Integers, Sequences, FiniteSets, TLC

VARIABLES
  safeJqlTemplates,     \* the module-level template object, built at load time
  conversationMemory,   \* session id -> the session object, own properties only
  req,                  \* the invocations of the /api/query handler
  fnPc,      \* position of the pure-function application: "in", "out", "again"
  fnArg,     \* the argument a pure function is applied to
  fnRet,     \* its result
  fnRet2     \* the result of applying it to its own result

fnVars == <<fnPc, fnArg, fnRet, fnRet2>>

vars == <<safeJqlTemplates, conversationMemory, req, fnVars>>

\* process.env.JIRA_PROJECT_KEY once dotenv.config() has run
JIRA_PROJECT_KEY == "NIHK"

-----------------------------------------------------------------------------
(* Characters and the regular-expression primitives the source relies on.  *)

CharAt(s, i) == SubSeq(s, i, i)

CharsOf(s) == {CharAt(s, i) : i \in 1..Len(s)}

UpperLetters == "ABCDEFGHIJKLMNOPQRSTUVWXYZ"

LowerLetters == "abcdefghijklmnopqrstuvwxyz"

UpperChars == CharsOf(UpperLetters)

Digits == CharsOf("0123456789")

\* \w
WordChars == UpperChars \cup CharsOf(LowerLetters) \cup Digits \cup {"_"}

\* \s
SpaceChars == {" ", "\t", "\n", "\r", "\f"}

QuoteChars == {"\"", "'"}

lowerOf ==
  [c \in UpperChars |->
     CharAt(LowerLetters, CHOOSE i \in 1..Len(UpperLetters) : CharAt(UpperLetters, i) = c)]

LowerChar(c) == IF c \in UpperChars THEN lowerOf[c] ELSE c

\* characters lo..hi of s in lower case
RECURSIVE lowerRange(_, _, _)
lowerRange(s, lo, hi) ==
  IF lo > hi THEN ""
  ELSE IF lo = hi THEN LowerChar(CharAt(s, lo))
  ELSE LET mid == (lo + hi) \div 2
       IN lowerRange(s, lo, mid) \o lowerRange(s, mid + 1, hi)

\* s.toLowerCase()
toLowerCase(s) == lowerRange(s, 1, Len(s))

\* the least position of a set of positions, 0 when it is empty: where a
\* left-to-right regex search finds its next match
First(P) == IF P = {} THEN 0 ELSE CHOOSE i \in P : \A j \in P : i <= j

\* s.substring(i - 1, i - 1 + Len(t)) === t
LitAt(s, i, t) == i >= 1 /\ i + Len(t) - 1 <= Len(s) /\ SubSeq(s, i, i + Len(t) - 1) = t

\* s.includes(t)
includes(s, t) == \E i \in 1..(Len(s) + 1) : LitAt(s, i, t)

\* the position after the longest run of characters of class C that starts at i
RECURSIVE RunEnd(_, _, _)
RunEnd(s, i, C) ==
  IF i <= Len(s) /\ CharAt(s, i) \in C THEN RunEnd(s, i + 1, C) ELSE i

\* the position after the longest run of characters outside class C
RECURSIVE RunEndNot(_, _, _)
RunEndNot(s, i, C) ==
  IF i <= Len(s) /\ CharAt(s, i) \notin C THEN RunEndNot(s, i + 1, C) ELSE i

\* \b at position i (between character i - 1 and character i)
WordBoundary(s, i) ==
  ((i > 1 /\ CharAt(s, i - 1) \in WordChars) /\ ~(i <= Len(s) /\ CharAt(s, i) \in WordChars))
  \/ (~(i > 1 /\ CharAt(s, i - 1) \in WordChars) /\ (i <= Len(s) /\ CharAt(s, i) \in WordChars))

\* s.trim()
RECURSIVE trimStart(_)
trimStart(s) == IF s # "" /\ Head(s) \in SpaceChars THEN trimStart(Tail(s)) ELSE s

RECURSIVE trimEnd(_)
trimEnd(s) ==
  IF s # "" /\ CharAt(s, Len(s)) \in SpaceChars THEN trimEnd(SubSeq(s, 1, Len(s) - 1)) ELSE s

trim(s) == trimEnd(trimStart(s))

-----------------------------------------------------------------------------
(* Regular expressions as trees, for the patterns that are only tested.    *)
(* Ends(r, s, i) is the set of positions at which a match of r that starts *)
(* at position i of s can end; regex.test(s) asks for one at some i.       *)

Lit(t) == [op |-> "lit", t |-> t]

\* (?:a|b|c) over literal alternatives
Words(ts) == [op |-> "words", ts |-> ts]

Alt(rs) == [op |-> "alt", rs |-> rs]

Cat(rs) == [op |-> "cat", rs |-> rs]

Opt(r) == [op |-> "opt", r |-> r]

\* C* (min = 0) or C+ (min = 1) over a character class
Many(C, min) == [op |-> "many", C |-> C, neg |-> FALSE, min |-> min]

\* .* : any characters but line terminators
DotStar == [op |-> "many", C |-> {"\n", "\r"}, neg |-> TRUE, min |-> 0]

\* . (any character but a line terminator), ^ and $ (no m flag)
AnyChar == [op |-> "any"]
Bol == [op |-> "bol"]

Eol == [op |-> "eol"]

RECURSIVE Ends(_, _, _)
RECURSIVE EndsCat(_, _, _, _)

Ends(r, s, i) ==
  CASE r.op = "lit" -> IF LitAt(s, i, r.t) THEN {i + Len(r.t)} ELSE {}
    [] r.op = "words" -> {i + Len(r.ts[k]) : k \in {k \in DOMAIN r.ts : LitAt(s, i, r.ts[k])}}
    [] r.op = "alt" -> UNION {Ends(r.rs[k], s, i) : k \in DOMAIN r.rs}
    [] r.op = "cat" -> EndsCat(r.rs, 1, s, {i})
    [] r.op = "opt" -> {i} \cup Ends(r.r, s, i)
    [] r.op = "many" ->
         LET e == IF r.neg THEN RunEndNot(s, i, r.C) ELSE RunEnd(s, i, r.C)
         IN (i + r.min)..e
    [] r.op = "any" ->
         IF i <= Len(s) /\ CharAt(s, i) \notin {"\n", "\r"} THEN {i + 1} ELSE {}
    [] r.op = "bol" -> IF i = 1 THEN {i} ELSE {}
    [] r.op = "eol" -> IF i = Len(s) + 1 THEN {i} ELSE {}

EndsCat(rs, k, s, P) ==
  IF k > Len(rs) \/ P = {} THEN P
  ELSE EndsCat(rs, k + 1, s, UNION {Ends(rs[k], s, p) : p \in P})

\* regex.test(s)
test(r, s) == \E i \in 1..(Len(s) + 1) : Ends(r, s, i) # {}

\* regex.test(s) under the flag i, the literals of r being in lower case
testI(r, s) == test(r, toLowerCase(s))

\* a match that keeps the case of the lowered text, not of the query
matchFirstLowered(r, s, low) ==
  LET at == First({i \in 1..Len(s) : Ends(r, low, i) # {}})
      E == Ends(r, low, at)
  IN IF at = 0 THEN ""
     ELSE SubSeq(low, at, (CHOOSE e \in E : \A f \in E : f <= e) - 1)

\* s.match(regex)[0] for a pattern whose quantifiers are greedy runs: the
\* leftmost match, taken as long as it can be; "" when there is no match
matchFirst(r, s, low) ==
  LET at == First({i \in 1..Len(s) : Ends(r, low, i) # {}})
      E == Ends(r, low, at)
  IN IF at = 0 THEN ""
     ELSE SubSeq(s, at, (CHOOSE e \in E : \A f \in E : f <= e) - 1)

-----------------------------------------------------------------------------
(* sanitizeJQL: the five rewriting passes, each a global regex replace.    *)

\* the lookahead (?![^(]*\)) fails at j when a ")" follows with no "(" before it
ClosesParen(s, j) ==
  \E k \in j..Len(s) : CharAt(s, k) = ")" /\ \A m \in j..(k - 1) : CharAt(s, m) # "("

\* sanitized.replace(/,(?![^(]*\))/g, " AND "), from position i on
RECURSIVE commasToAnd(_, _)
commasToAnd(s, i) ==
  LET m == First({j \in i..Len(s) : CharAt(s, j) = "," /\ ~ClosesParen(s, j + 1)})
  IN IF m = 0 THEN SubSeq(s, i, Len(s))
     ELSE SubSeq(s, i, m - 1) \o " AND " \o commasToAnd(s, m + 1)

hasProject(s) ==
  includes(s, "project = \"" \o JIRA_PROJECT_KEY \o "\"")
  \/ includes(s, "project = " \o JIRA_PROJECT_KEY)

ensureProject(s) ==
  IF ~hasProject(s) THEN "project = " \o JIRA_PROJECT_KEY \o " AND (" \o s \o ")" ELSE s

\* the end of a match of /\s+is\s+empty\b/i (not = FALSE) or of
\* /\s+is\s+not\s+empty\b/i (not = TRUE) that starts at i; 0 when there is none.
\* The flag i: s is the text in lower case.
IsEmptyEnd(s, i, not) ==
  LET a == RunEnd(s, i, SpaceChars)
      b == a + 2
      c == RunEnd(s, b, SpaceChars)
      d == IF not THEN c + 3 ELSE c
      e == IF not THEN RunEnd(s, d, SpaceChars) ELSE c
      f == e + 5
  IN IF /\ a > i
        /\ LitAt(s, a, "is")
        /\ c > b
        /\ (not => (LitAt(s, c, "not") /\ e > d))
        /\ LitAt(s, e, "empty")
        /\ WordBoundary(s, f)
     THEN f ELSE 0

\* sanitized.replace(/\s+is\s+empty\b/gi, " is EMPTY") and
\* sanitized.replace(/\s+is\s+not\s+empty\b/gi, " is not EMPTY")
RECURSIVE fixIsEmpty(_, _, _, _)
fixIsEmpty(s, low, i, not) ==
  LET m == First({j \in i..Len(s) : IsEmptyEnd(low, j, not) # 0})
  IN IF m = 0 THEN SubSeq(s, i, Len(s))
     ELSE SubSeq(s, i, m - 1) \o (IF not THEN " is not EMPTY" ELSE " is EMPTY")
          \o fixIsEmpty(s, low, IsEmptyEnd(low, m, not), not)

\* a match of /(\w+)\s*=\s*([^"'\s][^\s]*\s+[^\s"']*[^"'\s])/ that starts at i:
\* the bounds of $1 and $2 and the end of the match; end = 0 when there is none
ValueMatch(s, i) ==
  LET w == RunEnd(s, i, WordChars)
      a == RunEnd(s, w, SpaceChars)
      b == RunEnd(s, a + 1, SpaceChars)
      p == RunEndNot(s, b + 1, SpaceChars)
      q == RunEnd(s, p, SpaceChars)
      t == RunEndNot(s, q, SpaceChars \cup QuoteChars)
      ok == /\ w > i
            /\ LitAt(s, a, "=")
            /\ b <= Len(s)
            /\ CharAt(s, b) \notin QuoteChars
            /\ q > p
            /\ t > q
  IN IF ok THEN [end |-> t, g1 |-> SubSeq(s, i, w - 1), g2 |-> SubSeq(s, b, t - 1)]
     ELSE [end |-> 0, g1 |-> "", g2 |-> ""]

\* sanitized.replace(/(\w+)\s*=\s*(...)/g, '$1 = "$2"'), from position i on
RECURSIVE quoteSpacedValues(_, _)
quoteSpacedValues(s, i) ==
  LET at == First({j \in i..Len(s) : ValueMatch(s, j).end # 0})
      m == ValueMatch(s, at)
  IN IF at = 0 THEN SubSeq(s, i, Len(s))
     ELSE SubSeq(s, i, at - 1) \o m.g1 \o " = \"" \o m.g2 \o "\""
          \o quoteSpacedValues(s, m.end)

reservedWords == <<"limit", "and", "or", "not", "empty", "null", "order", "by", "asc", "desc">>

\* new RegExp(`\\b${word}\\b(?<!["'])`, "gi") matches at i of s, the text in lower
\* case (the flag i): the lookbehind looks at the last letter of the word itself
ReservedAt(s, i, word) ==
  /\ WordBoundary(s, i)
  /\ LitAt(s, i, word)
  /\ WordBoundary(s, i + Len(word))
  /\ CharAt(s, i + Len(word) - 1) \notin QuoteChars

\* sanitized.replace(regex, `"${word}"`), from position i on
RECURSIVE quoteWord(_, _, _, _)
quoteWord(s, low, i, word) ==
  LET m == First({j \in i..Len(s) : ReservedAt(low, j, word)})
  IN IF m = 0 THEN SubSeq(s, i, Len(s))
     ELSE SubSeq(s, i, m - 1) \o "\"" \o word \o "\"" \o quoteWord(s, low, m + Len(word), word)

\* for (const word of reservedWords) ...
RECURSIVE quoteReserved(_, _)
quoteReserved(s, k) ==
  IF k > Len(reservedWords) THEN s
  ELSE quoteReserved(quoteWord(s, toLowerCase(s), 1, reservedWords[k]), k + 1)

sanitizeJQL(jql) ==
  IF jql = "" THEN "project = " \o JIRA_PROJECT_KEY
  ELSE LET s1 == commasToAnd(jql, 1)
           s2 == ensureProject(s1)
           s3 == fixIsEmpty(s2, toLowerCase(s2), 1, FALSE)
           s4 == fixIsEmpty(s3, toLowerCase(s3), 1, TRUE)
           s5 == quoteSpacedValues(s4, 1)
       IN quoteReserved(s5, 1)

-----------------------------------------------------------------------------
(* preprocessQuery: the ordered phrasing patterns and their standard forms.*)

\* the regex of each mapping (flag i: applied to the lowercased query) and
\* its standardized form; the last one returns the query itself
queryMappings(query) ==
  << [regex |-> Cat(<<Bol, Words(<<"how is", "how's", "what's", "what is">>), Lit(" "),
                      Opt(Lit("the ")), Lit("project"), Opt(Lit("'s")), Lit(" "),
                      Words(<<"status", "progress", "going", "health">>)>>),
      standardized |-> "show project status"],
     [regex |-> Cat(<<Bol, Words(<<"give me", "show", "display">>), Lit(" "),
                      Opt(Words(<<"the ", "a ">>)), Words(<<"project", "overall">>), Lit(" "),
                      Words(<<"status", "overview", "summary", "health">>)>>),
      standardized |-> "show project status"],
     [regex |-> Cat(<<Bol, Words(<<"project", "status">>), Lit(" "),
                      Words(<<"overview", "health", "summary">>)>>),
      standardized |-> "show project status"],
     [regex |-> Words(<<"timeline", "schedule", "roadmap", "plan", "calendar", "deadlines">>),
      standardized |-> "show project timeline"],
     [regex |-> Cat(<<Lit("what"), Opt(Words(<<"'s", " is">>)), Lit(" "),
                      Words(<<"coming up", "planned", "scheduled", "due">>)>>),
      standardized |-> "show upcoming deadlines"],
     [regex |-> Cat(<<Lit("what"), Opt(Words(<<"'s", " is">>)), Lit(" due "),
                      Words(<<"this", "next">>), Lit(" "), Words(<<"week", "month">>)>>),
      standardized |-> "show upcoming deadlines"],
     [regex |-> Cat(<<Lit("when "), Words(<<"will", "is", "are">>), Lit(" "), DotStar, Lit(" "),
                      Words(<<"due", "finish", "complete", "done">>)>>),
      standardized |-> "show project timeline"],
     [regex |-> Cat(<<Lit("what"), Words(<<"'s", " is">>), Lit(" "),
                      Opt(Words(<<"the ", "our ">>)), Lit("schedule")>>),
      standardized |-> "show project timeline"],
     [regex |-> Words(<<"blocker", "blocking issue", "impediment", "what's blocking",
                        "what is blocking">>),
      standardized |-> "show project blockers"],
     [regex |-> Cat(<<Lit("what"), Opt(Words(<<"'s", " is">>)), Lit(" "),
                      Words(<<"preventing", "stopping", "holding up">>)>>),
      standardized |-> "show project blockers"],
     [regex |-> Words(<<"risk", "risks", "at risk", "critical issue">>),
      standardized |-> "show high risk items"],
     [regex |-> Cat(<<Lit("who"), Words(<<"'s", " is">>), Lit(" "),
                      Words(<<"working on", "assigned to", "responsible for">>)>>),
      standardized |-> "show team workload"],
     [regex |-> Cat(<<Lit("what"), Words(<<"'s", " is">>), Lit(" "),
                      Words(<<"everyone", "everybody", "the team">>), Lit(" working on")>>),
      standardized |-> "show team workload"],
     [regex |-> Words(<<"workload", "bandwidth", "capacity", "allocation">>),
      standardized |-> "show team workload"],
     [regex |-> Cat(<<Lit("who"), Words(<<"'s", " is">>), Lit(" "),
                      Words(<<"overloaded", "busy", "free", "available">>)>>),
      standardized |-> "show team workload"],
     [regex |-> Cat(<<Words(<<"show", "list", "find", "get">>), Lit(" "),
                      Opt(Words(<<"all ", "the ", "">>)),
                      Words(<<"open", "active", "current">>), Lit(" "),
                      Words(<<"tasks", "issues", "tickets">>)>>),
      standardized |-> "show open tasks"],
     [regex |-> Cat(<<Words(<<"show", "list", "find", "get">>), Lit(" "),
                      Opt(Words(<<"all ", "the ", "">>)),
                      Words(<<"closed", "completed", "done", "resolved">>), Lit(" "),
                      Words(<<"tasks", "issues", "tickets">>)>>),
      standardized |-> "show closed tasks"],
     [regex |-> Cat(<<Words(<<"show", "list", "find", "get">>), Lit(" "),
                      Opt(Words(<<"all ", "the ", "">>)),
                      Words(<<"high priority", "important", "critical">>), Lit(" "),
                      Words(<<"tasks", "issues", "tickets">>)>>),
      standardized |-> "show high priority tasks"],
     [regex |-> Cat(<<Words(<<"show", "list", "find", "get">>), Lit(" "),
                      Opt(Words(<<"all ", "the ", "">>)),
                      Words(<<"unassigned", "without assignee">>), Lit(" "),
                      Words(<<"tasks", "issues", "tickets">>)>>),
      standardized |-> "show unassigned tasks"],
     [regex |-> Words(<<"recent", "latest", "last", "newest", "what's new", "what is new">>),
      standardized |-> "show recent updates"],
     [regex |-> Cat(<<Lit("what"), Words(<<"'s", " has">>), Lit(" changed")>>),
      standardized |-> "show recent updates"],
     [regex |-> Cat(<<Lit("what"), Words(<<"'s", " has">>), Lit(" happened")>>),
      standardized |-> "show recent updates"],
     [regex |-> Cat(<<Words(<<"current", "active", "ongoing">>), Lit(" sprint")>>),
      standardized |-> "show current sprint"],
     [regex |-> Lit("sprint status"),
      standardized |-> "show current sprint"],
     [regex |-> Cat(<<Words(<<"sprint", "iteration">>), Lit(" progress")>>),
      standardized |-> "show current sprint"],
     [regex |-> Cat(<<Words(<<"latest", "most recent", "last">>), Lit(" "),
                      Words(<<"edited", "updated", "modified", "changed">>), Lit(" "),
                      Words(<<"task", "issue", "ticket">>)>>),
      standardized |-> "show most recently updated task"],
     [regex |-> Cat(<<Words(<<"show", "tell me about", "what is", "details for", "info on">>),
                      Many(SpaceChars, 1), Lit(toLowerCase(JIRA_PROJECT_KEY)), Lit("-"),
                      Many(Digits, 1)>>),
      standardized |-> query] >>

\* query.replace(/[.,!?;]/g, "")
RECURSIVE stripPunctuation(_, _)
stripPunctuation(s, i) ==
  LET m == First({j \in i..Len(s) : CharAt(s, j) \in {".", ",", "!", "?", ";"}})
  IN IF m = 0 THEN SubSeq(s, i, Len(s))
     ELSE SubSeq(s, i, m - 1) \o stripPunctuation(s, m + 1)

\* a normalizer that only cleans the text
preprocessQueryClean(raw) == trim(stripPunctuation(toLowerCase(trim(raw)), 1))

\* a normalizer that takes the last mapping that matches
preprocessQueryLastMatch(raw) ==
  LET query == toLowerCase(trim(raw))
      maps == queryMappings(query)
      hits == {k \in DOMAIN maps : test(maps[k].regex, query)}
  IN IF hits # {} THEN maps[CHOOSE k \in hits : \A j \in hits : j <= k].standardized
     ELSE trim(stripPunctuation(query, 1))

preprocessQuery(raw) ==
  LET query == toLowerCase(trim(raw))
      maps == queryMappings(query)
      hit == First({k \in DOMAIN maps : test(maps[k].regex, query)})
  IN IF hit # 0 THEN maps[hit].standardized
     ELSE trim(stripPunctuation(query, 1))

-----------------------------------------------------------------------------
(* The safe templates, the fallback generator, the classifier, generateJQL *)

\* the object literal of safeJqlTemplates, key being the value of
\* process.env.JIRA_PROJECT_KEY when the module body evaluates it
TemplatesFor(key) ==
  [ PROJECT_STATUS |-> "project = " \o key \o " ORDER BY updated DESC",
    TIMELINE |-> "project = " \o key \o " AND duedate IS NOT EMPTY ORDER BY duedate ASC",
    TIMELINE_UPCOMING |-> "project = " \o key \o " AND duedate >= now() ORDER BY duedate ASC",
    TIMELINE_OVERDUE |->
      "project = " \o key \o " AND duedate < now() AND status != \"Done\" ORDER BY duedate ASC",
    BLOCKERS |->
      "project = " \o key \o " AND (priority in (\"High\", \"Highest\") OR status = \"Blocked\" OR labels = \"blocker\") AND status not in (\"Done\", \"Closed\", \"Resolved\")",
    HIGH_PRIORITY |->
      "project = " \o key \o " AND priority in (\"High\", \"Highest\") AND status not in (\"Done\", \"Closed\", \"Resolved\")",
    OPEN_TASKS |->
      "project = " \o key \o " AND status in (\"Open\", \"In Progress\", \"To Do\", \"Reopened\")",
    CLOSED_TASKS |-> "project = " \o key \o " AND status in (\"Done\", \"Closed\", \"Resolved\")",
    ASSIGNED_TASKS |->
      "project = " \o key \o " AND assignee IS NOT EMPTY AND status not in (\"Done\", \"Closed\", \"Resolved\")",
    UNASSIGNED_TASKS |->
      "project = " \o key \o " AND assignee IS EMPTY AND status not in (\"Done\", \"Closed\", \"Resolved\")",
    RECENT_UPDATES |-> "project = " \o key \o " ORDER BY updated DESC",
    CURRENT_SPRINT |-> "project = " \o key \o " AND sprint in openSprints()",
    MOST_RECENT_TASK |-> "project = " \o key \o " ORDER BY updated DESC" ]

\* T is the safeJqlTemplates object
fallbackGenerateJQL(query0, intent, T) ==
  LET query == toLowerCase(query0)
      has(ts) == test(Words(ts), query)
  IN IF intent = "PROJECT_STATUS" THEN T.PROJECT_STATUS
     ELSE IF intent = "TIMELINE" THEN T.TIMELINE
     ELSE IF intent = "BLOCKERS" THEN T.BLOCKERS
     ELSE IF intent = "TASK_LIST" /\ has(<<"open", "active", "current">>) THEN T.OPEN_TASKS
     ELSE IF intent = "TASK_LIST" /\ has(<<"closed", "completed", "done", "resolved">>)
     THEN T.CLOSED_TASKS
     ELSE IF intent = "TASK_LIST" /\ has(<<"high", "important", "critical", "priority">>)
     THEN T.HIGH_PRIORITY
     ELSE IF intent = "TASK_LIST" /\ has(<<"unassigned", "without assignee">>)
     THEN T.UNASSIGNED_TASKS
     ELSE IF intent = "ASSIGNED_TASKS" THEN T.ASSIGNED_TASKS
     ELSE IF intent = "SPRINT" THEN T.CURRENT_SPRINT
     ELSE IF intent = "WORKLOAD" THEN T.ASSIGNED_TASKS
     ELSE IF has(<<"timeline", "deadline", "due", "schedule">>) THEN T.TIMELINE
     ELSE IF has(<<"blocker", "blocking", "impediment", "risk">>) THEN T.BLOCKERS
     ELSE IF has(<<"high", "priority", "important", "urgent", "critical">>) THEN T.HIGH_PRIORITY
     ELSE IF has(<<"open", "active", "current">>) /\ has(<<"task", "issue", "ticket">>)
     THEN T.OPEN_TASKS
     ELSE IF has(<<"closed", "completed", "done", "resolved">>) THEN T.CLOSED_TASKS
     ELSE IF has(<<"assign", "work", "responsible">>) THEN T.ASSIGNED_TASKS
     ELSE IF has(<<"recent", "latest", "new", "update">>) THEN T.RECENT_UPDATES
     ELSE IF has(<<"sprint">>) THEN T.CURRENT_SPRINT
     ELSE T.PROJECT_STATUS

\* new RegExp(`${process.env.JIRA_PROJECT_KEY}-\\d+`, "i"), for lowercased text
issueKeyPattern == Cat(<<Lit(toLowerCase(JIRA_PROJECT_KEY)), Lit("-"), Many(Digits, 1)>>)

\* a classifier whose only rules are those of the sprint and the greeting
directIntentTwoRules(query) ==
  LET low == toLowerCase(query)
  IN IF test(Words(<<"sprint">>), low) THEN "SPRINT"
     ELSE IF test(Cat(<<Bol, Words(<<"hi", "hello", "hey", "greetings", "how are you",
                                     "what can you do", "what do you do", "help me",
                                     "how do you work">>)>>), toLowerCase(trim(query)))
     THEN "GREETING"
     ELSE ""

\* the deterministic rules of analyzeQueryIntent, in their order: the intent
\* of the first rule that matches, "" when none does
directIntent(query) ==
  LET low == toLowerCase(query)
      has(ts) == test(Words(ts), low)
      then(a, b) == Cat(<<Lit(a), DotStar, Lit(b)>>)
      \* the regex literal holds the text ${process.env.JIRA_PROJECT_KEY}
      \* uninterpolated: "$" asserts the end of input before "{process"
      detail == Cat(<<Bol, Words(<<"show", "tell", "get", "what is", "about">>), Lit(" "), Eol,
                      Lit("{process"), AnyChar, Lit("env"), AnyChar,
                      Lit("jira_project_key}-"),
                      Many(Digits, 1), Eol>>)
  IN IF has(<<"sprint", "current sprint", "active sprint", "sprint status", "sprint board">>)
     THEN "SPRINT"
     ELSE IF test(Cat(<<Bol, Words(<<"hi", "hello", "hey", "hi there", "greetings", "how are you",
                                     "what can you do", "what do you do", "help me",
                                     "how do you work">>)>>), toLowerCase(trim(query)))
     THEN "GREETING"
     ELSE IF test(issueKeyPattern, low) /\ test(detail, toLowerCase(trim(query)))
     THEN "TASK_DETAILS"
     ELSE IF test(Alt(<<then("project", " status"), then("status", " project"),
                        then("how", " project"), then("project", " health"),
                        then("project", " overview")>>), low)
     THEN "PROJECT_STATUS"
     ELSE IF test(Alt(<<Words(<<"timeline", "roadmap", "schedule", "deadline", "due date",
                                "calendar", "when">>), then("what", " due")>>), low)
     THEN "TIMELINE"
     ELSE IF has(<<"block", "blocker", "blocking", "stuck", "impediment", "obstacle", "risk",
                   "critical", "prevent">>)
     THEN "BLOCKERS"
     ELSE IF test(Alt(<<Words(<<"workload", "capacity", "bandwidth", "overloaded", "busy">>),
                        then("who", "working"), then("team", " work")>>), low)
     THEN "WORKLOAD"
     ELSE IF has(<<"assign", "working on", "responsible", "owner", "who is", "who's">>)
     THEN "ASSIGNED_TASKS"
     ELSE IF has(<<"list", "show", "find", "search", "get", "all", "open", "closed", "high">>)
             /\ has(<<"task", "issue", "ticket">>)
     THEN "TASK_LIST"
     ELSE IF has(<<"comment", "said", "mentioned", "update", "notes">>)
     THEN "COMMENTS"
     ELSE ""

\* the catch block of analyzeQueryIntent
keywordIntent(query) ==
  LET low == toLowerCase(query)
      has(ts) == test(Words(ts), low)
  IN IF test(Alt(<<Words(<<"timeline", "roadmap", "schedule", "deadline", "due date",
                           "calendar", "when">>),
                   Cat(<<Lit("what"), DotStar, Lit(" due")>>)>>), low)
     THEN "TIMELINE"
     ELSE IF has(<<"block", "blocker", "blocking", "stuck", "impediment", "obstacle", "risk",
                   "critical">>)
     THEN "BLOCKERS"
     ELSE IF has(<<"assign", "working on", "responsible", "owner", "who is", "who's">>)
     THEN "ASSIGNED_TASKS"
     ELSE IF has(<<"status", "progress", "update", "how is", "how's", "overview">>)
     THEN "PROJECT_STATUS"
     ELSE IF has(<<"list", "show", "find", "search", "get", "all">>) THEN "TASK_LIST"
     ELSE IF has(<<"comment", "said", "mentioned", "update", "notes">>) THEN "COMMENTS"
     ELSE IF has(<<"workload", "capacity", "bandwidth", "overloaded", "busy">>) THEN "WORKLOAD"
     ELSE IF has(<<"sprint">>) THEN "SPRINT"
     ELSE "GENERAL"

\* a classifier without its catch block: a failed call yields no intent
analyzeQueryIntentNoCatch(query, ai) ==
  IF directIntent(query) # "" THEN directIntent(query)
  ELSE trim(ai.text)

\* ai is the outcome of the chat completion when it is requested:
\* [ok |-> FALSE] (the call threw) or [ok |-> TRUE, text |-> its content]
analyzeQueryIntent(query, ai) ==
  IF directIntent(query) # "" THEN directIntent(query)
  ELSE IF ai.ok THEN trim(ai.text)
  ELSE keywordIntent(query)

\* the returns of generateJQL that come before the chat completion is
\* requested; "" when the code reaches the request
directJQL(query, intent, T) ==
  LET low == toLowerCase(query)
      has(ts) == test(Words(ts), low)
  IN IF query = "show project status" THEN T.PROJECT_STATUS
     ELSE IF query = "show project timeline" THEN T.TIMELINE
     ELSE IF query = "show upcoming deadlines" THEN T.TIMELINE_UPCOMING
     ELSE IF query = "show project blockers" THEN T.BLOCKERS
     ELSE IF query = "show high risk items" THEN T.HIGH_PRIORITY
     ELSE IF query = "show team workload" THEN T.ASSIGNED_TASKS
     ELSE IF query = "show open tasks" THEN T.OPEN_TASKS
     ELSE IF query = "show closed tasks" THEN T.CLOSED_TASKS
     ELSE IF query = "show high priority tasks" THEN T.HIGH_PRIORITY
     ELSE IF query = "show unassigned tasks" THEN T.UNASSIGNED_TASKS
     ELSE IF query = "show recent updates" THEN T.RECENT_UPDATES
     ELSE IF query = "show current sprint" THEN T.CURRENT_SPRINT
     ELSE IF query = "show most recently updated task" THEN T.MOST_RECENT_TASK
     ELSE IF test(Cat(<<Bol, Many(SpaceChars, 0), issueKeyPattern, Many(SpaceChars, 0), Eol>>), low)
     THEN "key = \"" \o trim(query) \o "\""
     ELSE IF test(issueKeyPattern, low)
     THEN "key = \"" \o matchFirst(issueKeyPattern, query, low) \o "\""
     ELSE IF intent = "CONVERSATION" \/ intent = "GREETING" THEN T.RECENT_UPDATES
     ELSE IF intent = "SPRINT" THEN T.CURRENT_SPRINT
     ELSE IF intent = "PROJECT_STATUS" THEN T.PROJECT_STATUS
     ELSE IF has(<<"recent", "latest", "most recent", "last", "newest">>)
             /\ has(<<"edited", "updated", "modified", "changed", "task">>)
     THEN T.MOST_RECENT_TASK
     ELSE ""

\* a generator that asks for the completion before it looks at its rules
generateJQLModelFirst(query, intent, ai, T) ==
  IF ai.ok THEN sanitizeJQL(trim(ai.text))
  ELSE IF directJQL(query, intent, T) # "" THEN directJQL(query, intent, T)
  ELSE fallbackGenerateJQL(query, intent, T)

\* a generator whose failed completion always gives the overview template
generateJQLOverview(query, intent, ai, T) ==
  IF directJQL(query, intent, T) # "" THEN directJQL(query, intent, T)
  ELSE IF ai.ok THEN sanitizeJQL(trim(ai.text))
  ELSE T.PROJECT_STATUS

\* a generator that returns the completion as it came
generateJQLRaw(query, intent, ai, T) ==
  IF directJQL(query, intent, T) # "" THEN directJQL(query, intent, T)
  ELSE IF ai.ok THEN trim(ai.text)
  ELSE fallbackGenerateJQL(query, intent, T)

\* a generator whose failed completion leaves it without a query
generateJQLNoFallback(query, intent, ai, T) ==
  IF directJQL(query, intent, T) # "" THEN directJQL(query, intent, T)
  ELSE IF ai.ok THEN sanitizeJQL(trim(ai.text))
  ELSE ""

generateJQL(query, intent, ai, T) ==
  IF directJQL(query, intent, T) # "" THEN directJQL(query, intent, T)
  ELSE IF ai.ok THEN sanitizeJQL(trim(ai.text))
  ELSE fallbackGenerateJQL(query, intent, T)

-----------------------------------------------------------------------------
(* The sanitizer applied to candidate queries assembled from fragments.    *)

MaxPieces == 3

JqlPieces ==
  { "status = \"Open\"", "assignee = \"Jo\"", ", ", "status = Open",
    "project = NIHK", "project = \"NIHK\"", "status in (\"Open\", \"Done\")",
    " is empty", "text ~ \"rate limit\"" }

RECURSIVE JqlTexts(_)
JqlTexts(n) ==
  IF n = 0 THEN {""}
  ELSE LET shorter == JqlTexts(n - 1)
       IN shorter \cup {t \o p : t \in shorter, p \in JqlPieces}

\* safeJqlTemplates is evaluated before dotenv.config() runs: the key it
\* interpolates is the one of the process environment, or undefined when the
\* key is only given in the .env file
LoadTimeTemplates == {TemplatesFor("undefined"), TemplatesFor(JIRA_PROJECT_KEY)}

Loaded == safeJqlTemplates \in LoadTimeTemplates

\* no request has arrived
Quiet == conversationMemory = <<>> /\ req = <<>>

SanInit ==
  /\ Loaded
  /\ Quiet
  /\ fnPc = "in"
  /\ fnArg \in JqlTexts(MaxPieces)
  /\ fnRet = ""
  /\ fnRet2 = ""

Sanitize ==
  /\ fnPc = "in"
  /\ fnPc' = "out"
  /\ fnRet' = sanitizeJQL(fnArg)
  /\ UNCHANGED <<safeJqlTemplates, conversationMemory, req, fnArg, fnRet2>>

SanitizeAgain ==
  /\ fnPc = "out"
  /\ fnPc' = "again"
  /\ fnRet2' = sanitizeJQL(fnRet)
  /\ UNCHANGED <<safeJqlTemplates, conversationMemory, req, fnArg, fnRet>>

SanNext == Sanitize \/ SanitizeAgain

SanSpec == SanInit /\ [][SanNext]_vars

\* C7: whatever candidate query the sanitizer is given, its output holds a
\* clause that scopes the query to the configured project.
SanitizerOutputScoped == fnPc = "out" => hasProject(fnRet)

\* C8: sanitizing the sanitizer's own output gives that output back,
\* sanitize(sanitize(x)) = sanitize(x).
SanitizeIdempotent == fnPc = "again" => fnRet2 = fnRet

\* C9: for the input status = "Open", assignee = "Jo" the output joins the
\* two conditions with the logical AND operator in place of the comma.
CommaBecomesAnd ==
  fnPc = "out" /\ fnArg = "status = \"Open\", assignee = \"Jo\""
    => /\ ~includes(fnRet, ",")
       /\ includes(toLowerCase(fnRet), "status = \"open\" and")

\* C28: a string literal of the candidate query (the text between an
\* opening double quote and the next one) that holds a reserved word comes
\* out of the sanitizer as it went in: the literal stands in the output and
\* no further quotes were put around or inside it.
QuotedReservedWordsKept ==
  LET quotes == {i \in 1..Len(fnArg) : CharAt(fnArg, i) = "\""}
      opens == {i \in quotes : Cardinality({j \in quotes : j < i}) % 2 = 0}
      holdsReserved(lit) ==
        \E k \in DOMAIN reservedWords, p \in 1..Len(lit) :
          /\ WordBoundary(lit, p)
          /\ LitAt(toLowerCase(lit), p, reservedWords[k])
          /\ WordBoundary(lit, p + Len(reservedWords[k]))
  IN fnPc = "out"
       => \A i \in opens :
            LET j == First({k \in quotes : k > i})
                lit == SubSeq(fnArg, i, j)
            IN (j # 0 /\ holdsReserved(lit))
                 => includes(fnRet, lit) /\ ~includes(fnRet, "\"" \o lit \o "\"")

-----------------------------------------------------------------------------
(* generateJQL applied to query texts built around an issue-key token.     *)

Intents ==
  {"PROJECT_STATUS", "TASK_LIST", "ASSIGNED_TASKS", "TASK_DETAILS", "BLOCKERS", "TIMELINE",
   "COMMENTS", "WORKLOAD", "SPRINT", "GREETING", "CONVERSATION", "GENERAL"}

\* what the chat completion of generateJQL may do
JqlCompletions ==
  {[ok |-> FALSE, text |-> ""], [ok |-> TRUE, text |-> " status = Open "],
   [ok |-> TRUE, text |-> "project = NIHK ORDER BY updated DESC"],
   [ok |-> TRUE,
    text |-> "project = NIHK AND text ~ \"rate limit\" ORDER BY created DESC LIMIT 5"]}

KeyTokens == {"", "NIHK-42", "nihk-7", "Nihk-123", "NIHK-0"}

TextsBefore == {"", "  ", "show ", "what about ", "show project status ", "x"}

TextsAfter == {"", " ", " latest task please", " and NIHK-9", "show current sprint", "y"}

GenInit ==
  /\ Loaded
  /\ Quiet
  /\ fnPc = "in"
  /\ fnArg \in [before : TextsBefore, token : KeyTokens, after : TextsAfter,
                 intent : Intents, ai : JqlCompletions]
  /\ fnRet = ""
  /\ fnRet2 = ""

GenerateJQL ==
  /\ fnPc = "in"
  /\ fnPc' = "out"
  /\ fnRet' = generateJQL(fnArg.before \o fnArg.token \o fnArg.after, fnArg.intent,
                          fnArg.ai, safeJqlTemplates)
  /\ UNCHANGED <<safeJqlTemplates, conversationMemory, req, fnArg, fnRet2>>

GenNext == GenerateJQL

GenSpec == GenInit /\ [][GenNext]_vars

\* C6: a query text that holds an issue-key token (project prefix, dash,
\* digits) gives the key-equality query of that token, whatever the intent,
\* the completion and the text around the token.
IssueKeyWins ==
  fnPc = "out" /\ fnArg.token # "" => fnRet = "key = \"" \o fnArg.token \o "\""

\* the input "NIHK-42" alone, under an intent that has a template shortcut
IssueKeyWinsWitness ==
  /\ fnPc = "out"
  /\ fnArg.before = "" /\ fnArg.token = "NIHK-42" /\ fnArg.after = ""
  /\ fnArg.intent = "SPRINT"
  /\ fnRet = "key = \"NIHK-42\""

\* C14: every query generateJQL returns, on whichever branch, holds a clause
\* that scopes it to the configured project: the project clause, or the key
\* of an issue of the project.
SynthesizerOutputScoped ==
  fnPc = "out"
    => \/ hasProject(fnRet)
       \/ LitAt(toLowerCase(fnRet), 1, "key = \"" \o toLowerCase(JIRA_PROJECT_KEY) \o "-")

\* C16: whenever generateJQL asks for a completion and gets one, what it
\* returns is the sanitizer's output for the trimmed completion, never the
\* completion itself.
ModelOutputIsSanitized ==
  fnPc = "out" /\ fnArg.ai.ok
    /\ directJQL(fnArg.before \o fnArg.token \o fnArg.after, fnArg.intent, safeJqlTemplates) = ""
    => fnRet = sanitizeJQL(trim(fnArg.ai.text))

\* a completion without a project clause came back with one put before it
ModelOutputIsSanitizedWitness ==
  /\ fnPc = "out"
  /\ fnArg.before = "x" /\ fnArg.token = "" /\ fnArg.after = "y"
  /\ fnArg.intent = "TASK_LIST"
  /\ fnArg.ai = [ok |-> TRUE, text |-> " status = Open "]
  /\ fnRet # "status = Open"
  /\ LitAt(fnRet, 1, "project = ")

\* C17: when generateJQL asks for a completion and the call fails, it
\* returns the template fallbackGenerateJQL picks from the intent and the
\* keywords of the query: the one of the intent for TIMELINE, BLOCKERS,
\* ASSIGNED_TASKS and WORKLOAD, and the project overview when neither the
\* intent nor a keyword picks one.
FailedSynthesisFallsBack ==
  LET query == fnArg.before \o fnArg.token \o fnArg.after
      T == safeJqlTemplates
  IN fnPc = "out" /\ ~fnArg.ai.ok /\ directJQL(query, fnArg.intent, T) = ""
       => /\ fnRet = fallbackGenerateJQL(query, fnArg.intent, T)
          /\ fnRet \in {T[name] : name \in DOMAIN T}
          /\ fnArg.intent = "TIMELINE" => fnRet = T.TIMELINE
          /\ fnArg.intent = "BLOCKERS" => fnRet = T.BLOCKERS
          /\ fnArg.intent \in {"ASSIGNED_TASKS", "WORKLOAD"} => fnRet = T.ASSIGNED_TASKS
          /\ fnArg.intent \in {"GENERAL", "COMMENTS", "TASK_DETAILS", "TASK_LIST"}
               /\ query \in {"x", "x ", "xy", "y", "  y"}
               => fnRet = T.PROJECT_STATUS

\* the call failed for a query without keywords under an intent without a
\* template
FailedSynthesisFallsBackWitness ==
  /\ fnPc = "out"
  /\ ~fnArg.ai.ok
  /\ fnArg.token = ""
  /\ fnArg.before = "x" /\ fnArg.after = "y" /\ fnArg.intent = "GENERAL"
  /\ fnRet = safeJqlTemplates.PROJECT_STATUS

\* C18: generateJQL returns at the first of its rules that applies, in this
\* order: the template of a canonical phrase, the key query of an issue key
\* in the text, the template of the intents CONVERSATION, GREETING, SPRINT
\* and PROJECT_STATUS, the most-recent-task template; only when none
\* applies does the result depend on the completion.
RulesInOrder ==
  LET query == fnArg.before \o fnArg.token \o fnArg.after
      low == toLowerCase(query)
      T == safeJqlTemplates
      canonical ==
        [ q \in {"show project status", "show project timeline", "show upcoming deadlines",
                 "show project blockers", "show high risk items", "show team workload",
                 "show open tasks", "show closed tasks", "show high priority tasks",
                 "show unassigned tasks", "show recent updates", "show current sprint",
                 "show most recently updated task"} |->
            CASE q = "show project status" -> T.PROJECT_STATUS
              [] q = "show project timeline" -> T.TIMELINE
              [] q = "show upcoming deadlines" -> T.TIMELINE_UPCOMING
              [] q = "show project blockers" -> T.BLOCKERS
              [] q = "show high risk items" -> T.HIGH_PRIORITY
              [] q = "show team workload" -> T.ASSIGNED_TASKS
              [] q = "show open tasks" -> T.OPEN_TASKS
              [] q = "show closed tasks" -> T.CLOSED_TASKS
              [] q = "show high priority tasks" -> T.HIGH_PRIORITY
              [] q = "show unassigned tasks" -> T.UNASSIGNED_TASKS
              [] q = "show recent updates" -> T.RECENT_UPDATES
              [] q = "show current sprint" -> T.CURRENT_SPRINT
              [] q = "show most recently updated task" -> T.MOST_RECENT_TASK ]
      recent ==
        /\ test(Words(<<"recent", "latest", "most recent", "last", "newest">>), low)
        /\ test(Words(<<"edited", "updated", "modified", "changed", "task">>), low)
  IN fnPc = "out"
       => IF query \in DOMAIN canonical THEN fnRet = canonical[query]
          ELSE IF test(issueKeyPattern, low) THEN LitAt(fnRet, 1, "key = \"")
          ELSE IF fnArg.intent \in {"CONVERSATION", "GREETING"} THEN fnRet = T.RECENT_UPDATES
          ELSE IF fnArg.intent = "SPRINT" THEN fnRet = T.CURRENT_SPRINT
          ELSE IF fnArg.intent = "PROJECT_STATUS" THEN fnRet = T.PROJECT_STATUS
          ELSE IF recent THEN fnRet = T.MOST_RECENT_TASK
          ELSE fnRet = IF fnArg.ai.ok THEN sanitizeJQL(trim(fnArg.ai.text))
                       ELSE fallbackGenerateJQL(query, fnArg.intent, T)

\* a canonical phrase under an intent that has a template of its own, and a
\* completion that answered: the phrase's template is returned
RulesInOrderWitness ==
  /\ fnPc = "out"
  /\ fnArg.before = "" /\ fnArg.token = "" /\ fnArg.after = "show current sprint"
  /\ fnArg.intent = "PROJECT_STATUS"
  /\ fnArg.ai.ok
  /\ fnRet = safeJqlTemplates.CURRENT_SPRINT
  /\ fnRet # safeJqlTemplates.PROJECT_STATUS

-----------------------------------------------------------------------------
(* analyzeQueryIntent applied to short query texts.                        *)

MaxWords == 2

QueryWords ==
  {"hi", "show", "tasks", "sprint", "when", "risk", "busy", "owner", "update", "status",
   "project", "thanks", "how is", "NIHK-42"}

RECURSIVE QueryTexts(_)
QueryTexts(n) ==
  IF n = 0 THEN {""}
  ELSE LET shorter == QueryTexts(n - 1)
       IN shorter \cup QueryWords \cup {t \o " " \o w : t \in shorter \ {""}, w \in QueryWords}

\* what the chat completion of analyzeQueryIntent may do
IntentCompletions ==
  {[ok |-> FALSE, text |-> ""], [ok |-> TRUE, text |-> " CONVERSATION\n"],
   [ok |-> TRUE, text |-> "GREETING"], [ok |-> TRUE, text |-> "This looks like TASK_LIST."]}

ClsInit ==
  /\ Loaded
  /\ Quiet
  /\ fnPc = "in"
  /\ fnArg \in [query : QueryTexts(MaxWords), ai : IntentCompletions]
  /\ fnRet = ""
  /\ fnRet2 = ""

AnalyzeQueryIntent ==
  /\ fnPc = "in"
  /\ fnPc' = "out"
  /\ fnRet' = analyzeQueryIntent(fnArg.query, fnArg.ai)
  /\ UNCHANGED <<safeJqlTemplates, conversationMemory, req, fnArg, fnRet2>>

ClsNext == AnalyzeQueryIntent

ClsSpec == ClsInit /\ [][ClsNext]_vars

\* C10: when the classification call fails, analyzeQueryIntent still returns
\* a value of the closed intent enumeration, for every query text.
FailedCallStillClassifies == fnPc = "out" /\ ~fnArg.ai.ok => fnRet \in Intents

\* the call was requested (no deterministic rule matched) and failed, and
\* the keyword fallback ended in its default
FailedCallStillClassifiesWitness ==
  /\ fnPc = "out"
  /\ ~fnArg.ai.ok
  /\ directIntent(fnArg.query) = ""
  /\ fnArg.query = "thanks"
  /\ fnRet = "GENERAL"

\* C38: when the classification call was requested and failed, the result
\* is PROJECT_STATUS, TASK_LIST or GENERAL: a query that would take another
\* branch of the keyword fallback is decided by a deterministic rule before
\* the call
FallbackReachesThreeIntents ==
  fnPc = "out" /\ ~fnArg.ai.ok /\ directIntent(fnArg.query) = ""
    => fnRet \in {"PROJECT_STATUS", "TASK_LIST", "GENERAL"}

\* no rule decides "show status"; the call failed and the keyword fallback
\* passed its first three branches to end in PROJECT_STATUS
FallbackReachesThreeIntentsWitness ==
  /\ fnPc = "out"
  /\ ~fnArg.ai.ok
  /\ fnArg.query = "show status"
  /\ directIntent(fnArg.query) = ""
  /\ fnRet = "PROJECT_STATUS"

\* C11: analyzeQueryIntent returns a value of the closed intent enumeration
\* for every query text, also when the classification call answers with a
\* text of its own.
ClassifierReturnsIntent == fnPc = "out" => fnRet \in Intents

\* C24: when a deterministic rule matches the query, analyzeQueryIntent
\* returns the intent of the first rule that matches, whatever a completion
\* would answer; the third rule gives TASK_DETAILS to a request for an issue
\* (show, tell, get, what is or about, then the issue key).
DeterministicRuleDecides ==
  LET detailRequest ==
        test(Cat(<<Bol, Words(<<"show", "tell", "get", "what is", "about">>), Lit(" "),
                   issueKeyPattern, Eol>>), toLowerCase(trim(fnArg.query)))
  IN fnPc = "out"
       => /\ directIntent(fnArg.query) # "" => fnRet = directIntent(fnArg.query)
          /\ detailRequest => fnRet = "TASK_DETAILS"

-----------------------------------------------------------------------------
(* preprocessQuery applied to texts around an issue key, and generateJQL   *)
(* applied to what it returns.                                             *)

NormInit ==
  /\ Loaded
  /\ Quiet
  /\ fnPc = "in"
  /\ fnArg \in [lead : {"", "show ", "  Tell me about ", "what is the latest on ",
                         "Show most rec.ently updated task"},
                 token : {"", "NIHK-42", "nihk-7"},
                 tail : {"", "?", ", thanks!", " timeline", "how's the project going?",
                         "latest updated task", "most recent edited issue"},
                 intent : Intents, ai : JqlCompletions]
  /\ fnRet = ""
  /\ fnRet2 = ""

PreprocessQuery ==
  /\ fnPc = "in"
  /\ fnPc' = "out"
  /\ fnRet' = preprocessQuery(fnArg.lead \o fnArg.token \o fnArg.tail)
  /\ UNCHANGED <<safeJqlTemplates, conversationMemory, req, fnArg, fnRet2>>

GenerateJQLOfPreprocessed ==
  /\ fnPc = "out"
  /\ fnPc' = "again"
  /\ fnRet2' = generateJQL(fnRet, fnArg.intent, fnArg.ai, safeJqlTemplates)
  /\ UNCHANGED <<safeJqlTemplates, conversationMemory, req, fnArg, fnRet>>

NormNext == PreprocessQuery \/ GenerateJQLOfPreprocessed

NormSpec == NormInit /\ [][NormNext]_vars

\* C19: preprocessQuery maps "how's the project going?" to "show project
\* status", and for that phrase generateJQL returns the PROJECT_STATUS
\* template as it is, whatever the intent and whatever a completion would
\* answer.
StatusPhraseTakesTemplate ==
  fnArg.lead = "" /\ fnArg.token = "" /\ fnArg.tail = "how's the project going?"
    => /\ fnPc \in {"out", "again"} => fnRet = "show project status"
       /\ fnPc = "again" => fnRet2 = safeJqlTemplates.PROJECT_STATUS

\* the phrase went through both functions under an intent with another
\* template and with a completion at hand
StatusPhraseTakesTemplateWitness ==
  /\ fnPc = "again"
  /\ fnArg.lead = "" /\ fnArg.token = "" /\ fnArg.tail = "how's the project going?"
  /\ fnArg.intent = "SPRINT"
  /\ fnArg.ai.ok
  /\ fnRet = "show project status"
  /\ fnRet2 = safeJqlTemplates.PROJECT_STATUS

\* C20: a query that mentions an issue key (project key, dash, digits) comes
\* back from preprocessQuery as it was given (in lower case and trimmed, as
\* every query does), whatever else its text matches.
IssueKeyShortCircuits ==
  fnPc = "out" /\ fnArg.token # ""
    => fnRet = toLowerCase(trim(fnArg.lead \o fnArg.token \o fnArg.tail))

OnlyTrailingPunctuationRemoved ==
  LET query == toLowerCase(trim(fnArg.lead \o fnArg.token \o fnArg.tail))
      maps == queryMappings(query)
      kept == {j \in 1..Len(query) : CharAt(query, j) \notin {".", ",", "!", "?", ";"}}
      end == IF kept = {} THEN 0 ELSE CHOOSE j \in kept : \A k \in kept : k <= j
  IN (fnPc = "out" /\ \A k \in DOMAIN maps : ~test(maps[k].regex, query))
       => fnRet = trim(SubSeq(query, 1, end))

-----------------------------------------------------------------------------
(* The /api/query handler: data.                                           *)

MaxRequests == 1

MaxIssues == 2

Requests == 1..MaxRequests

\* body.query of the requests
Queries ==
  {"", "hi", "hey", "How's the project going?", "any deadlines?", "who's busy", "current sprint",
   "NIHK-42", "thanks a lot", "bugs for jo", "list open issues for jo",
   "show most rec.ently updated task"}

\* body.sessionId of the requests ("default" when the body gives none)
SessionIds == {"default", "s1", "constructor"}

\* names every object literal inherits from Object.prototype: reading
\* conversationMemory[name] gives a truthy value that has no queries array
InheritedKeys == {"constructor"}

\* a message: the note put before it, the text (a literal, the name of the
\* pool or formatter it comes from, or "completion" for the content of a chat
\* completion), the index Math.random picked in a pool, the issues it lists
Msg(note, text, pick, listed) ==
  [note |-> note, text |-> text, pick |-> pick, listed |-> listed]

null == Msg("", "null", 0, 0)

\* response.data of a search: the issues it holds and, for reference, the
\* position of the search among the searches of the request
Data(call, issues) == [call |-> call, issues |-> issues]

NoData == Data(0, 0)

\* res.json(body): the status stays 200
json(message, rawData, intent, jql) ==
  [status |-> 200, message |-> message, rawData |-> rawData, intent |-> intent, jql |-> jql]

\* res.status(400).json({ message })
badRequest(text) ==
  [status |-> 400, message |-> Msg("", text, 0, 0), rawData |-> NoData, intent |-> "",
   jql |-> ""]

emptySession == [queries |-> <<>>, intents |-> <<>>, lastResponse |-> null, note |-> ""]

\* a history that makes room by dropping its newest entry
push10DropsNewest(list, x) ==
  IF Len(list) >= 10 THEN Append(SubSeq(list, 1, 9), x) ELSE Append(list, x)

\* a history that never makes room
push10KeepsAll(list, x) == Append(list, x)

\* list.push(x); if (list.length > 10) list.shift()
push10(list, x) ==
  LET pushed == Append(list, x)
  IN IF Len(pushed) > 10 THEN Tail(pushed) ELSE pushed

idleFrame ==
  [pc |-> "idle", query |-> "", sessionId |-> "", processed |-> "", intent |-> "",
   jql |-> "", fn |-> "", data |-> NoData, note |-> "", searches |-> <<>>, sent |-> <<>>]

\* one search of the remote endpoint, as the request log keeps it
Searched(at, jql, maxResults, ok, issues, error) ==
  [at |-> at, jql |-> jql, maxResults |-> maxResults, ok |-> ok, issues |-> issues,
   error |-> error]

\* what a search may do: the promise of axios.get rejects, because the
\* endpoint refused the query (status 400, code ERR_BAD_REQUEST) or because
\* it could not be reached (code ECONNREFUSED), or the endpoint answers with
\* some issues
SearchOutcomes ==
  {[ok |-> FALSE, issues |-> 0, error |-> e] : e \in {"ERR_BAD_REQUEST", "ECONNREFUSED"}}
    \cup {[ok |-> TRUE, issues |-> n, error |-> ""] : n \in 0..MaxIssues}

\* what a chat completion that renders a message may do
RenderOutcomes == {TRUE, FALSE}

processedOf == [query \in Queries |-> preprocessQuery(query)]

ProcessedQueries == {processedOf[query] : query \in Queries}

intentOf ==
  [q \in ProcessedQueries |-> [ai \in IntentCompletions |-> analyzeQueryIntent(q, ai)]]

hasIssueKey == [q \in ProcessedQueries |-> test(issueKeyPattern, toLowerCase(q))]

\* the dispatch of lines 1587-1608: the aggregate handler a query goes to
aggregateOf(query) ==
  IF query = "show most recently updated task" THEN "getMostRecentTaskDetails"
  ELSE IF query = "show project status" THEN "getProjectStatusOverview"
  ELSE IF query = "show project timeline" \/ query = "show upcoming deadlines"
  THEN "getProjectTimeline"
  ELSE IF query = "show team workload" THEN "getTeamWorkload"
  ELSE ""

\* the searches the aggregate handlers start with (getProjectStatusOverview
\* runs seven at once: the entry holds the last of them)
aggregateSearch(fn, query) ==
  LET low == toLowerCase(query)
      has(ts) == test(Words(ts), low)
      key == JIRA_PROJECT_KEY
  IN IF fn = "getMostRecentTaskDetails"
     THEN [jql |-> "project = " \o key \o " ORDER BY updated DESC", maxResults |-> 1]
     ELSE IF fn = "getProjectStatusOverview"
     THEN [jql |-> "project = " \o key \o " AND updated >= -7d ORDER BY updated DESC",
           maxResults |-> 5]
     ELSE IF fn = "getTeamWorkload"
     THEN [jql |-> "project = " \o key \o " AND assignee IS NOT EMPTY AND status != \"Done\"",
           maxResults |-> 100]
     ELSE [jql |->
             IF has(<<"past", "previous", "last", "recent">>)
             THEN "project = " \o key
                    \o " AND duedate <= now() AND duedate >= -30d ORDER BY duedate DESC"
             ELSE IF has(<<"overdue", "late", "miss", "behind">>)
             THEN "project = " \o key
                    \o " AND duedate < now() AND status != \"Done\" ORDER BY duedate ASC"
             ELSE IF has(<<"this week", "current week">>)
             THEN "project = " \o key
                    \o " AND duedate >= startOfWeek() AND duedate <= endOfWeek() ORDER BY duedate ASC"
             ELSE IF has(<<"next week">>)
             THEN "project = " \o key
                    \o " AND duedate > endOfWeek() AND duedate <= endOfWeek(1) ORDER BY duedate ASC"
             ELSE IF has(<<"this month", "current month">>)
             THEN "project = " \o key
                    \o " AND duedate >= startOfMonth() AND duedate <= endOfMonth() ORDER BY duedate ASC"
             ELSE "project = " \o key \o " AND duedate >= now() ORDER BY duedate ASC",
           maxResults |-> 20]

\* meta.intent of the aggregate handlers' responses
aggregateIntent(fn) ==
  IF fn = "getMostRecentTaskDetails" THEN "TASK_DETAILS"
  ELSE IF fn = "getProjectStatusOverview" THEN "PROJECT_STATUS"
  ELSE IF fn = "getProjectTimeline" THEN "TIMELINE"
  ELSE "WORKLOAD"

\* Math.random(), in tenths
Randoms == {0, 5}

\* pool[Math.floor(Math.random() * pool.length)], counted from 1
pickOf(length, random) == (random * length) \div 10 + 1

\* the text the recovery note of line 2202 holds
recoveryNote == "I've found some information that might help with your question:"

\* generateResponse(query, jiraData, intent, context) for search data that
\* holds an issues array: rendered says whether the chat completion answered
generateResponse(data, intent, rendered, random) ==
  IF intent = "GREETING" THEN Msg("", "greetingResponses", pickOf(3, random), 0)
  ELSE IF intent = "CONVERSATION"
  THEN IF rendered THEN Msg("", "completion", 0, 0)
       ELSE Msg("", "I'm here to help with your Jira queries. What would you like to know about your project?", 0, 0)
  ELSE IF rendered THEN Msg("", "completion", 0, 0)
  ELSE IF data.issues = 0 THEN Msg("", "noResultsResponses", pickOf(4, random), 0)
  ELSE IF intent \in {"PROJECT_STATUS", "TIMELINE", "BLOCKERS", "HIGH_PRIORITY", "ASSIGNED_TASKS",
                      "WORKLOAD"}
  THEN Msg("", "response", 0, data.issues)
  ELSE Msg("", "openingPhrases", pickOf(5, random), data.issues)

\* const maxResults = ... of line 2150
maxResultsOf(intent) == IF intent = "TASK_LIST" \/ intent = "ASSIGNED_TASKS" THEN 20 ELSE 50

\* a retry that always searches the sprint template
simplifiedJQLSprint(query, intent, T) == T.CURRENT_SPRINT

\* simplifiedJQL of lines 2166-2186
simplifiedJQL(query, intent, T) ==
  LET low == toLowerCase(query)
      has(ts) == test(Words(ts), low)
  IN IF intent = "PROJECT_STATUS" THEN T.PROJECT_STATUS
     ELSE IF intent = "TIMELINE" THEN T.TIMELINE
     ELSE IF intent = "BLOCKERS" \/ intent = "HIGH_PRIORITY" THEN T.HIGH_PRIORITY
     ELSE IF intent = "TASK_LIST" /\ has(<<"open", "active">>) THEN T.OPEN_TASKS
     ELSE IF intent = "TASK_LIST" /\ has(<<"closed", "done", "completed">>) THEN T.CLOSED_TASKS
     ELSE IF intent = "ASSIGNED_TASKS" \/ intent = "WORKLOAD" THEN T.ASSIGNED_TASKS
     ELSE IF intent = "SPRINT" THEN T.CURRENT_SPRINT
     ELSE "project = " \o JIRA_PROJECT_KEY \o " ORDER BY updated DESC"

\* the query of lines 2067-2071 and 2342-2347
recentQuery == "project = " \o JIRA_PROJECT_KEY \o " ORDER BY updated DESC"

\* the regex literal of line 1912 holds the text ${issueKey} uninterpolated:
\* "$" asserts the end of input before "{issueKey}"
directLookup(query, intent) ==
  /\ intent = "TASK_DETAILS"
  /\ test(Cat(<<Bol, Words(<<"show", "tell", "get", "what is", "about">>), Many(SpaceChars, 1),
                Eol, Lit("{issuekey}"), Eol>>), toLowerCase(trim(query)))

\* where the handler goes on after the sprint block (line 1865) and after
\* the issue block (line 2063)
afterIssue(intent) == IF intent = "CONVERSATION" THEN "conversation" ELSE "generateJQL"

afterSprint(query, intent) == IF hasIssueKey[query] THEN "issue" ELSE afterIssue(intent)

ReachedIntents == {intentOf[q][ai] : q \in ProcessedQueries, ai \in IntentCompletions}

jqlOf ==
  [T \in LoadTimeTemplates |->
    [q \in ProcessedQueries |->
      [intent \in ReachedIntents |->
        [ai \in JqlCompletions |-> generateJQL(q, intent, ai, T)]]]]

simplifiedOf ==
  [T \in LoadTimeTemplates |->
    [q \in ProcessedQueries |-> [intent \in ReachedIntents |-> simplifiedJQL(q, intent, T)]]]

-----------------------------------------------------------------------------
(* The /api/query handler: one action for each stretch of code between two *)
(* awaits. Remote data is taken as well formed (issues carry their fields). *)

\* conversationMemory[sessionId].lastResponse = message
stored(sessionId, message) ==
  [conversationMemory EXCEPT ![sessionId].lastResponse = message]

\* lines 1554-1608, up to the first await
Receive(r, query, sessionId) ==
  LET f == req[r]
      q == processedOf[query]
      memory == IF sessionId \in DOMAIN conversationMemory THEN conversationMemory
                ELSE (sessionId :> emptySession) @@ conversationMemory
  IN /\ f.pc = "idle"
     /\ \A k \in 1..(r - 1) : req[k].pc # "idle"
     /\ IF query = ""
        THEN /\ req' = [req EXCEPT ![r] = [f EXCEPT !.pc = "done", !.sessionId = sessionId,
                                                     !.sent = <<badRequest("Query is required")>>]]
             /\ UNCHANGED conversationMemory
        ELSE IF sessionId \in InheritedKeys /\ sessionId \notin DOMAIN conversationMemory
        THEN \* queries is undefined: push throws outside the try block
             /\ req' = [req EXCEPT ![r] = [f EXCEPT !.pc = "rejected", !.query = query,
                                                     !.sessionId = sessionId]]
             /\ UNCHANGED conversationMemory
        ELSE /\ conversationMemory' = [memory EXCEPT ![sessionId].queries = push10(@, query)]
             /\ req' = [req EXCEPT ![r] =
                          [f EXCEPT !.pc = IF aggregateOf(q) # "" THEN "aggregate" ELSE "analyze",
                                    !.query = query, !.sessionId = sessionId, !.processed = q,
                                    !.fn = aggregateOf(q)]]
     /\ UNCHANGED <<safeJqlTemplates, fnVars>>

\* the aggregate handler up to the answer of its search; getProjectTimeline
\* goes on to its simpler query when the search is rejected
AggregateSearch(r) ==
  LET f == req[r]
      search == aggregateSearch(f.fn, f.processed)
  IN /\ f.pc = "aggregate"
     /\ \E out \in SearchOutcomes :
          LET searches == Append(f.searches,
                                 Searched(f.fn, search.jql, search.maxResults, out.ok, out.issues, out.error))
              data == Data(Len(searches), out.issues)
              answers == out.ok /\ (f.fn = "getProjectStatusOverview" \/ out.issues > 0)
              message == Msg("", "formattedResponse", 0, 1)
          IN IF answers /\ f.fn = "getMostRecentTaskDetails"
             THEN /\ req' = [req EXCEPT ![r] =
                               [f EXCEPT !.pc = "done", !.searches = searches, !.data = data,
                                         !.sent = Append(@, json(message, data, "TASK_DETAILS", ""))]]
                  /\ conversationMemory' = stored(f.sessionId, message)
             ELSE /\ req' = [req EXCEPT ![r] =
                               [f EXCEPT !.pc = IF answers THEN "aggregateRender"
                                                ELSE IF ~out.ok /\ f.fn = "getProjectTimeline"
                                                THEN "timelineFallback"
                                                ELSE "analyze",
                                         !.searches = searches,
                                         !.data = IF answers THEN data ELSE NoData]]
                  /\ UNCHANGED conversationMemory
     /\ UNCHANGED <<safeJqlTemplates, fnVars>>

\* the .catch of lines 820-830 and what follows its query
TimelineFallback(r) ==
  LET f == req[r]
  IN /\ f.pc = "timelineFallback"
     /\ \E out \in SearchOutcomes :
          LET searches ==
                Append(f.searches,
                       Searched(f.fn, "project = " \o JIRA_PROJECT_KEY
                                        \o " AND duedate IS NOT EMPTY ORDER BY duedate ASC",
                                20, out.ok, out.issues, out.error))
              answers == out.ok /\ out.issues > 0
          IN req' = [req EXCEPT ![r] =
                       [f EXCEPT !.pc = IF answers THEN "aggregateRender" ELSE "analyze",
                                 !.searches = searches,
                                 !.data = IF answers THEN Data(Len(searches), out.issues)
                                          ELSE NoData]]
     /\ UNCHANGED <<safeJqlTemplates, conversationMemory, fnVars>>

\* the chat completion of an aggregate handler answers or fails; both ways
\* the handler stores the message and sends it
AggregateRender(r) ==
  LET f == req[r]
  IN /\ f.pc = "aggregateRender"
     /\ \E rendered \in RenderOutcomes :
          LET message == IF rendered THEN Msg("", "completion", 0, 0)
                         ELSE Msg("", "formattedResponse", 0, f.data.issues)
              rawData == IF f.fn = "getProjectStatusOverview" THEN f.data ELSE NoData
          IN /\ req' = [req EXCEPT ![r] =
                          [f EXCEPT !.pc = "done",
                                    !.sent = Append(@, json(message, rawData,
                                                            aggregateIntent(f.fn), ""))]]
             /\ conversationMemory' = stored(f.sessionId, message)
     /\ UNCHANGED <<safeJqlTemplates, fnVars>>

\* a handler without the greeting branch: a greeting goes on like any intent
AnalyzeIntentGoesOn(r) ==
  LET f == req[r]
  IN /\ f.pc = "analyze"
     /\ \E ai \in IntentCompletions :
          LET intent == intentOf[f.processed][ai]
          IN /\ conversationMemory' =
                  [conversationMemory EXCEPT ![f.sessionId].intents = push10(@, intent)]
             /\ req' = [req EXCEPT ![r] =
                          [f EXCEPT !.pc = IF intent = "SPRINT" THEN "sprintBoards"
                                           ELSE afterSprint(f.processed, intent),
                                    !.intent = intent]]
     /\ UNCHANGED <<safeJqlTemplates, fnVars>>

\* analyzeQueryIntent returns (lines 1611-1641): the intent is kept in the
\* session; a greeting is answered at once
AnalyzeIntent(r) ==
  LET f == req[r]
  IN /\ f.pc = "analyze"
     /\ \E ai \in IntentCompletions, random \in Randoms :
          LET intent == intentOf[f.processed][ai]
              memory == [conversationMemory EXCEPT ![f.sessionId].intents = push10(@, intent)]
              message == Msg("", "greetingResponses", pickOf(3, random), 0)
          IN IF intent = "GREETING"
             THEN /\ conversationMemory' = [memory EXCEPT ![f.sessionId].lastResponse = message]
                  /\ req' = [req EXCEPT ![r] =
                               [f EXCEPT !.pc = "done", !.intent = intent,
                                         !.sent = Append(@, json(message, NoData, "GREETING", ""))]]
             ELSE /\ random = 0
                  /\ conversationMemory' = memory
                  /\ req' = [req EXCEPT ![r] =
                               [f EXCEPT !.pc = IF intent = "SPRINT" THEN "sprintBoards"
                                                ELSE afterSprint(f.processed, intent),
                                         !.intent = intent]]
     /\ UNCHANGED <<safeJqlTemplates, fnVars>>

\* the active boards arrive (lines 1647-1660); a failure counts as none
SprintBoards(r) ==
  LET f == req[r]
  IN /\ f.pc = "sprintBoards"
     /\ \E found \in BOOLEAN :
          req' = [req EXCEPT ![r] =
                    [f EXCEPT !.pc = IF found THEN "sprintSprints" ELSE "sprintSearch"]]
     /\ UNCHANGED <<safeJqlTemplates, conversationMemory, fnVars>>

\* the active sprints of the first board arrive (lines 1664-1675)
SprintSprints(r) ==
  LET f == req[r]
  IN /\ f.pc = "sprintSprints"
     /\ \E found \in BOOLEAN :
          req' = [req EXCEPT ![r] =
                    [f EXCEPT !.pc = IF found THEN "sprintIssues" ELSE "sprintSearch"]]
     /\ UNCHANGED <<safeJqlTemplates, conversationMemory, fnVars>>

\* the issues of the sprint arrive (lines 1678-1697); a failure counts as none
SprintIssues(r) ==
  LET f == req[r]
  IN /\ f.pc = "sprintIssues"
     /\ \E issues \in 0..MaxIssues :
          req' = [req EXCEPT ![r] =
                    [f EXCEPT !.pc = IF issues = 0 THEN "sprintSearch" ELSE "sprintRender",
                              !.data = Data(0, issues)]]
     /\ UNCHANGED <<safeJqlTemplates, conversationMemory, fnVars>>

\* the open-sprints search of lines 1698-1710; when it is rejected the
\* handler leaves the sprint block (line 1859)
SprintSearch(r) ==
  LET f == req[r]
  IN /\ f.pc = "sprintSearch"
     /\ \E out \in SearchOutcomes :
          LET searches ==
                Append(f.searches,
                       Searched("sprint", "project = " \o JIRA_PROJECT_KEY
                                            \o " AND sprint in openSprints()",
                                50, out.ok, out.issues, out.error))
          IN req' = [req EXCEPT ![r] =
                       [f EXCEPT !.pc = IF out.ok THEN "sprintRender"
                                        ELSE afterSprint(f.processed, f.intent),
                                 !.searches = searches,
                                 !.data = IF out.ok THEN Data(Len(searches), out.issues)
                                          ELSE NoData]]
     /\ UNCHANGED <<safeJqlTemplates, conversationMemory, fnVars>>

\* the sprint message (lines 1790-1858): the completion is stored and sent,
\* the message built without it is sent only
SprintRender(r) ==
  LET f == req[r]
  IN /\ f.pc = "sprintRender"
     /\ \E rendered \in RenderOutcomes :
          LET message == IF rendered THEN Msg("", "completion", 0, 0)
                         ELSE Msg("", "formattedResponse", 0, f.data.issues)
          IN /\ req' = [req EXCEPT ![r] =
                          [f EXCEPT !.pc = "done",
                                    !.sent = Append(@, json(message, NoData, "SPRINT", ""))]]
             /\ conversationMemory' = IF rendered THEN stored(f.sessionId, message)
                                      ELSE conversationMemory
     /\ UNCHANGED <<safeJqlTemplates, fnVars>>

\* the issue named in the query arrives or not (lines 1874-1912, 2057)
IssueFetch(r) ==
  LET f == req[r]
      message == Msg("", "formattedResponse", 0, 1)
  IN /\ f.pc = "issue"
     /\ \E found \in BOOLEAN :
          IF found /\ directLookup(f.processed, f.intent)
          THEN /\ req' = [req EXCEPT ![r] =
                            [f EXCEPT !.pc = "done", !.data = Data(0, 1),
                                      !.sent = Append(@, json(message, Data(0, 1),
                                                              "TASK_DETAILS", ""))]]
               /\ conversationMemory' = stored(f.sessionId, message)
          ELSE /\ req' = [req EXCEPT ![r] =
                            [f EXCEPT !.pc = IF found THEN "issueRender" ELSE afterIssue(f.intent),
                                      !.data = IF found THEN Data(0, 1) ELSE NoData]]
               /\ UNCHANGED conversationMemory
     /\ UNCHANGED <<safeJqlTemplates, fnVars>>

\* the message about the issue (lines 1956-2055)
IssueRender(r) ==
  LET f == req[r]
  IN /\ f.pc = "issueRender"
     /\ \E rendered \in RenderOutcomes :
          LET message == IF rendered THEN Msg("", "completion", 0, 0)
                         ELSE Msg("", "formattedResponse", 0, 1)
          IN /\ req' = [req EXCEPT ![r] =
                          [f EXCEPT !.pc = "done",
                                    !.sent = Append(@, json(message, f.data, f.intent, ""))]]
             /\ conversationMemory' = stored(f.sessionId, message)
     /\ UNCHANGED <<safeJqlTemplates, fnVars>>

\* the recent issues of a conversational query arrive (lines 2067-2076), or
\* the search is rejected and a stock message is sent (lines 2088-2108)
ConversationSearch(r) ==
  LET f == req[r]
  IN /\ f.pc = "conversation"
     /\ \E out \in SearchOutcomes, random \in Randoms :
          LET searches == Append(f.searches,
                                 Searched("conversation", recentQuery, 5, out.ok, out.issues, out.error))
              message == Msg("", "conversationalResponses", pickOf(4, random), 0)
          IN IF out.ok
             THEN /\ random = 0
                  /\ req' = [req EXCEPT ![r] =
                               [f EXCEPT !.pc = "conversationRender", !.searches = searches,
                                         !.data = Data(Len(searches), out.issues)]]
                  /\ UNCHANGED conversationMemory
             ELSE /\ req' = [req EXCEPT ![r] =
                               [f EXCEPT !.pc = "done", !.searches = searches,
                                         !.sent = Append(@, json(message, NoData,
                                                                 "CONVERSATION", ""))]]
                  /\ conversationMemory' = stored(f.sessionId, message)
     /\ UNCHANGED <<safeJqlTemplates, fnVars>>

\* generateResponse returns for the conversational query (lines 2077-2087)
ConversationRender(r) ==
  LET f == req[r]
  IN /\ f.pc = "conversationRender"
     /\ \E rendered \in RenderOutcomes :
          LET message == generateResponse(f.data, f.intent, rendered, 0)
          IN /\ req' = [req EXCEPT ![r] =
                          [f EXCEPT !.pc = "done",
                                    !.sent = Append(@, json(message, NoData, "CONVERSATION", ""))]]
             /\ conversationMemory' = stored(f.sessionId, message)
     /\ UNCHANGED <<safeJqlTemplates, fnVars>>

\* generateJQL returns (lines 2112-2150); the chat completion it may
\* request answers with a candidate query or fails
Synthesize(r) ==
  LET f == req[r]
  IN /\ f.pc = "generateJQL"
     /\ \E ai \in JqlCompletions :
          LET jql == jqlOf[safeJqlTemplates][f.processed][f.intent][ai]
          IN req' = [req EXCEPT ![r] =
                       IF jql = ""
                       THEN [f EXCEPT !.pc = "done",
                                      !.sent = Append(@, badRequest("Failed to generate a valid query."))]
                       ELSE [f EXCEPT !.pc = "search", !.jql = jql]]
     /\ UNCHANGED <<safeJqlTemplates, conversationMemory, fnVars>>

\* a handler that tries the simplified query again whenever a search fails
afterRejectedLoop(at) == "retry"

\* where a rejected search of the execution step leads: the first one to the
\* simplified query (line 2162), the second one out of the try block (2334)
afterRejected(at) == IF at = "first" THEN "retry" ELSE "lastResort"

\* a handler that reads the note and leaves it in the session
takeNoteLeaves(memory, sessionId) == memory

\* lines 2212-2214: the note of the session is taken and deleted
takeNote(memory, sessionId) == [memory EXCEPT ![sessionId].note = ""]

\* the search of the generated query answers (lines 2154-2161, then
\* 2207-2214) or is rejected (line 2162)
Execute(r) ==
  LET f == req[r]
  IN /\ f.pc = "search"
     /\ \E out \in SearchOutcomes :
          LET searches == Append(f.searches,
                                 Searched("first", f.jql, maxResultsOf(f.intent), out.ok,
                                          out.issues, out.error))
          IN IF out.ok
             THEN /\ req' = [req EXCEPT ![r] =
                               [f EXCEPT !.pc = "render", !.searches = searches,
                                         !.data = Data(Len(searches), out.issues),
                                         !.note = conversationMemory[f.sessionId].note]]
                  /\ conversationMemory' = takeNote(conversationMemory, f.sessionId)
             ELSE /\ req' = [req EXCEPT ![r] =
                               [f EXCEPT !.pc = afterRejected("first"), !.searches = searches]]
                  /\ UNCHANGED conversationMemory
     /\ UNCHANGED <<safeJqlTemplates, fnVars>>

\* the search of the simplified query answers (lines 2191-2214): the note
\* is put in the session, then taken from it; or it is rejected, and the
\* error leaves the try block (line 2334)
Retry(r) ==
  LET f == req[r]
      simplified == simplifiedOf[safeJqlTemplates][f.processed][f.intent]
  IN /\ f.pc = "retry"
     /\ \E out \in SearchOutcomes :
          LET searches == Append(f.searches,
                                 Searched("retry", simplified, maxResultsOf(f.intent), out.ok,
                                          out.issues, out.error))
              noted == [conversationMemory EXCEPT ![f.sessionId].note = recoveryNote]
          IN IF out.ok
             THEN /\ req' = [req EXCEPT ![r] =
                               [f EXCEPT !.pc = "render", !.searches = searches,
                                         !.data = Data(Len(searches), out.issues),
                                         !.note = noted[f.sessionId].note]]
                  /\ conversationMemory' = takeNote(noted, f.sessionId)
             ELSE /\ req' = [req EXCEPT ![r] =
                               [f EXCEPT !.pc = afterRejected("retry"), !.searches = searches]]
                  /\ UNCHANGED conversationMemory
     /\ UNCHANGED <<safeJqlTemplates, fnVars>>

\* a message that leaves the note out
withoutNote(note, message) == message

\* `${note}\n\n${baseResponse}`
withNote(note, message) == [message EXCEPT !.note = note]

\* generateResponse returns (lines 2216-2333): the message, with the note
\* before it when there is one, is stored and sent with the search data
Render(r) ==
  LET f == req[r]
  IN /\ f.pc = "render"
     /\ \E rendered \in RenderOutcomes, random \in Randoms :
          LET base == generateResponse(f.data, f.intent, rendered, random)
              message == IF f.note # "" THEN withNote(f.note, base) ELSE base
          IN /\ base.pick = 0 => random = 0
             /\ req' = [req EXCEPT ![r] =
                          [f EXCEPT !.pc = "done",
                                    !.sent = Append(@, json(message, f.data, f.intent, f.jql))]]
             /\ conversationMemory' = stored(f.sessionId, message)
     /\ UNCHANGED <<safeJqlTemplates, fnVars>>

\* a last resort that answers with a stock message whatever it found
lastResortStock(out, random) == Msg("", "friendlyResponses", pickOf(4, random), 0)

\* lines 2351-2389: the issues found are listed under one of the relevantInfo
\* openings; without issues the message is one of friendlyResponses
lastResortMessage(out, random) ==
  IF out.ok /\ out.issues > 0 THEN Msg("", "relevantInfo", pickOf(4, random), out.issues)
  ELSE Msg("", "friendlyResponses", pickOf(4, random), 0)

\* the catch block of lines 2334-2390: one search of the recent issues,
\* then the listing of what it found or a stock message
LastResort(r) ==
  LET f == req[r]
  IN /\ f.pc = "lastResort"
     /\ \E out \in SearchOutcomes, random \in Randoms :
          LET searches == Append(f.searches,
                                 Searched("lastResort", recentQuery, 5, out.ok, out.issues, out.error))
              message == lastResortMessage(out, random)
          IN req' = [req EXCEPT ![r] =
                       [f EXCEPT !.pc = "done", !.searches = searches,
                                 !.sent = Append(@, json(message, NoData, "GENERAL", ""))]]
     /\ UNCHANGED <<safeJqlTemplates, conversationMemory, fnVars>>

\* app.post("/api/reset-conversation"): the assignment gives the object an
\* own property even when the value read was an inherited one
\* a reset that forgets the histories and keeps the last response
ResetKeepsResponse(sessionId) ==
  /\ sessionId \in DOMAIN conversationMemory \/ sessionId \in InheritedKeys
  /\ conversationMemory' =
       [s \in DOMAIN conversationMemory \cup {sessionId} |->
          IF s = sessionId
          THEN IF s \in DOMAIN conversationMemory
               THEN [conversationMemory[s] EXCEPT !.queries = <<>>, !.intents = <<>>]
               ELSE emptySession
          ELSE conversationMemory[s]]
  /\ UNCHANGED <<safeJqlTemplates, req, fnVars>>

\* a reset that empties every session
ResetEverySession(sessionId) ==
  /\ sessionId \in DOMAIN conversationMemory \/ sessionId \in InheritedKeys
  /\ conversationMemory' = [s \in DOMAIN conversationMemory \cup {sessionId} |-> emptySession]
  /\ UNCHANGED <<safeJqlTemplates, req, fnVars>>

\* a reset that removes the session
ResetDeletes(sessionId) ==
  /\ sessionId \in DOMAIN conversationMemory
  /\ conversationMemory' =
       [s \in DOMAIN conversationMemory \ {sessionId} |-> conversationMemory[s]]
  /\ UNCHANGED <<safeJqlTemplates, req, fnVars>>

Reset(sessionId) ==
  /\ sessionId \in DOMAIN conversationMemory \/ sessionId \in InheritedKeys
  /\ conversationMemory' =
       [s \in DOMAIN conversationMemory \cup {sessionId} |->
          IF s = sessionId THEN emptySession ELSE conversationMemory[s]]
  /\ UNCHANGED <<safeJqlTemplates, req, fnVars>>

\* the deterministic rule of analyzeQueryIntent and of generateJQL that
\* decides a query, "" when the chat completion is requested
ruleOf == [q \in ProcessedQueries |-> directIntent(q)]

directOf ==
  [T \in LoadTimeTemplates |->
    [q \in ProcessedQueries |-> [intent \in ReachedIntents |-> directJQL(q, intent, T)]]]

\* the function the handler awaits returns without a remote call (one of
\* its rules decides): the handler goes on in the same turn of the event
\* loop, before any other handler is started or resumed
inOneStretch(f) ==
  \/ f.pc = "analyze" /\ ruleOf[f.processed] # ""
  \/ f.pc = "generateJQL" /\ directOf[safeJqlTemplates][f.processed][f.intent] # ""

\* the event loop may start or resume the handler of request r, or a reset
\* (r = 0): no other handler is in the middle of a stretch
Turn(r) == \A k \in DOMAIN req \ {r} : ~inOneStretch(req[k])

\* what a request does once it is received, when the event loop resumes it
Step(r) ==
  \/ Turn(r) /\ AggregateSearch(r)
  \/ Turn(r) /\ TimelineFallback(r)
  \/ Turn(r) /\ AggregateRender(r)
  \/ Turn(r) /\ AnalyzeIntent(r)
  \/ Turn(r) /\ SprintBoards(r)
  \/ Turn(r) /\ SprintSprints(r)
  \/ Turn(r) /\ SprintIssues(r)
  \/ Turn(r) /\ SprintSearch(r)
  \/ Turn(r) /\ SprintRender(r)
  \/ Turn(r) /\ IssueFetch(r)
  \/ Turn(r) /\ IssueRender(r)
  \/ Turn(r) /\ ConversationSearch(r)
  \/ Turn(r) /\ ConversationRender(r)
  \/ Turn(r) /\ Synthesize(r)
  \/ Turn(r) /\ Execute(r)
  \/ Turn(r) /\ Retry(r)
  \/ Turn(r) /\ Render(r)
  \/ Turn(r) /\ LastResort(r)

Init ==
  /\ Loaded
  /\ conversationMemory = <<>>
  /\ req = [r \in Requests |-> idleFrame]
  /\ fnPc = "off"
  /\ fnArg = ""
  /\ fnRet = ""
  /\ fnRet2 = ""

Next ==
  \/ \E r \in Requests, query \in Queries, sessionId \in SessionIds :
       Turn(r) /\ Receive(r, query, sessionId)
  \/ \E r \in Requests : Step(r)
  \/ \E sessionId \in SessionIds : Turn(0) /\ Reset(sessionId)

Spec == Init /\ [][Next]_vars

\* every remote call returns or fails in the end, and the event loop runs
\* the continuation of every handler that can go on
FairSpec == Spec /\ \A r \in Requests : WF_vars(Step(r))

-----------------------------------------------------------------------------
(* The fallback formatter of generateResponse (its catch block) applied to *)
(* short issue lists. A response is kept as response.split("\n"); the     *)
(* bullet character U+2022 of the source is written *.                     *)

MaxListed == 4

\* the fields of an issue the formatter reads; "" is a missing assignee or
\* due date. Keys follow the position in the list, summaries are alike.
IssueFields == [status : {"Done", "To Do"}, assignee : {"", "Jo"}, duedate : {"", "2025-03-15"}]

issueKey(i) == JIRA_PROJECT_KEY \o "-" \o ToString(i)

\* a set of positions in ascending order
RECURSIVE Ascending(_)
Ascending(S) == IF S = {} THEN <<>> ELSE <<First(S)>> \o Ascending(S \ {First(S)})

\* Object.keys of an object that got its properties in the order of the
\* issues: the distinct names in the order of their first appearance
groupNames(names) ==
  LET firsts == Ascending({i \in DOMAIN names : \A j \in 1..(i - 1) : names[j] # names[i]})
  IN [k \in DOMAIN firsts |-> names[firsts[k]]]

\* the catch block of generateResponse: issues is jiraData.issues, totalCount
\* is jiraData.total, r1 and r2 are the values of its calls of Math.random()
fallbackResponse(issues, totalCount, intent, r1, r2) ==
  LET issueCount == Len(issues)
      at == DOMAIN issues
      summary == "Fix login"
      \* toLocaleDateString("en-US", { month: "long", year: "numeric" }) and
      \* toLocaleDateString() of a due date, on a host with the en-US locale
      monthLabel(duedate) == IF duedate = "2025-03-15" THEN "March 2025" ELSE "Invalid Date"
      dateLabel(duedate) == IF duedate = "2025-03-15" THEN "3/15/2025" ELSE "Invalid Date"
      statuses == [i \in at |-> issues[i].status]
      \* issue.fields.assignee?.displayName || "Unassigned"
      assignees == [i \in at |-> IF issues[i].assignee = "" THEN "Unassigned"
                                 ELSE issues[i].assignee]
      months == [i \in at |-> IF issues[i].duedate = "" THEN "" ELSE monthLabel(issues[i].duedate)]
      \* the positions of the issues of one group, in the order of the list
      membersOf(names, name) == Ascending({i \in at : names[i] = name})
      each(positions, line(_)) == [k \in DOMAIN positions |-> line(positions[k])]
      groups(names, block(_)) ==
        LET blocks == [k \in DOMAIN names |-> block(names[k])]
            upTo[k \in 0..Len(names)] == IF k = 0 THEN <<>> ELSE upTo[k - 1] \o blocks[k]
        IN upTo[Len(names)]
      noResultsResponses ==
        << "I couldn't find any issues matching your criteria. Would you like to try a different search?",
           "I looked, but didn't find any matching issues in Jira. Could you try rephrasing your question?",
           "No results found for that query. Maybe we could try a broader search?",
           "I don't see any issues that match what you're looking for. Let me know if you'd like to try a different approach." >>
      openingPhrases ==
        << "I found " \o ToString(issueCount) \o " issues related to your query.",
           "There are " \o ToString(issueCount) \o " issues that match what you're looking for.",
           "Your search returned " \o ToString(issueCount) \o " issues.",
           "I've located " \o ToString(issueCount) \o " relevant issues in the project.",
           "Looking at your query, I found " \o ToString(issueCount) \o " matching issues." >>
      closingPrompts ==
        << "Is there a specific issue you'd like to know more about?",
           "Would you like details about any of these issues?",
           "Let me know if you need more information on any particular issue.",
           "I can tell you more about any of these issues if you're interested.",
           "Would you like to dive deeper into any of these?" >>
      countLine(name) ==
        <<"* **" \o name \o "**: " \o ToString(Len(membersOf(statuses, name))) \o " issues">>
      recentLine(i) == "* " \o issueKey(i) \o ": " \o summary \o " (" \o statuses[i] \o ")"
      dueLine(i) == "* " \o issueKey(i) \o ": " \o summary \o " (Due: "
                      \o dateLabel(issues[i].duedate) \o ", " \o statuses[i] \o ")"
      monthBlock(name) ==
        <<"### " \o name>> \o each(membersOf(months, name), dueLine) \o <<"">>
      attentionLine(i) == "* **" \o issueKey(i) \o "**: " \o summary \o " (High, " \o statuses[i]
                            \o ", Assigned to: " \o assignees[i] \o ")"
      assigneeBlock(name) ==
        LET mine == membersOf(assignees, name)
        IN <<"### " \o name \o " (" \o ToString(Len(mine)) \o " issues)">>
             \o each(SubSeq(mine, 1, IF Len(mine) < 3 THEN Len(mine) ELSE 3), recentLine)
             \o (IF Len(mine) > 3
                 THEN <<"... and " \o ToString(Len(mine) - 3) \o " more issues.">> ELSE <<>>)
             \o <<"">>
      assignedLine(i) ==
        "* " \o issueKey(i) \o ": " \o summary \o " (Assigned to: " \o assignees[i] \o ")"
      statusBlock(name) ==
        <<"**" \o name \o "**:">> \o each(membersOf(statuses, name), assignedLine) \o <<"">>
      dated == SelectSeq(groupNames(months), LAMBDA name : name # "")
  IN IF issueCount = 0 THEN <<noResultsResponses[pickOf(4, r1)]>>
     ELSE IF intent = "PROJECT_STATUS"
     THEN <<"## Project Status Overview", "", "Here's the current status of the project:", "">>
            \o groups(groupNames(statuses), countLine)
            \o <<"", "### Recent Activity">>
            \o each(Ascending(1..(IF issueCount < 3 THEN issueCount ELSE 3)), recentLine)
            \o <<"">>
     ELSE IF intent = "TIMELINE"
     THEN <<"## Project Timeline", "">>
            \o (IF dated = <<>>
                THEN <<"I didn't find any issues with due dates in the timeline.">>
                ELSE groups(dated, monthBlock) \o <<"">>)
     ELSE IF intent = "BLOCKERS" \/ intent = "HIGH_PRIORITY"
     THEN <<"## Key Issues Requiring Attention", "",
            "I found " \o ToString(issueCount) \o " issues that need attention:", "">>
            \o each(Ascending(at), attentionLine) \o <<"">>
     ELSE IF intent = "ASSIGNED_TASKS" \/ intent = "WORKLOAD"
     THEN <<"## Team Workload", "">> \o groups(groupNames(assignees), assigneeBlock) \o <<"">>
     ELSE <<openingPhrases[pickOf(5, r1)]
              \o (IF totalCount > issueCount
                  THEN " (Out of " \o ToString(totalCount) \o " total in the project)" ELSE ""),
            "">>
            \o groups(groupNames(statuses), statusBlock)
            \o <<closingPrompts[pickOf(5, r2)]>>

FmtInit ==
  /\ Loaded
  /\ Quiet
  /\ fnPc = "in"
  /\ fnArg \in [issues : UNION {[1..n -> IssueFields] : n \in 0..MaxListed},
                 more : {0, 1},
                 \* a greeting and a conversation are answered before the formatter
                 intent : (Intents \ {"GREETING", "CONVERSATION"}) \cup {"HIGH_PRIORITY"},
                 randoms : {<<0, 5>>, <<5, 0>>}]
  /\ fnRet = <<>>
  /\ fnRet2 = ""

FallbackResponse ==
  /\ fnPc = "in"
  /\ fnPc' = "out"
  /\ fnRet' = fallbackResponse(fnArg.issues, Len(fnArg.issues) + fnArg.more, fnArg.intent,
                               fnArg.randoms[1], fnArg.randoms[2])
  /\ UNCHANGED <<safeJqlTemplates, conversationMemory, req, fnArg, fnRet2>>

FmtNext == FallbackResponse

FmtSpec == FmtInit /\ [][FmtNext]_vars

\* C29: whatever the intent, the fallback formatter lists at most three
\* issues of a group and closes a group that holds more with a line telling
\* how many more there are. Checked on lists whose issues all fall in one
\* group, whether issues are grouped by status, by assignee or by month.
GroupsListedBounded ==
  LET issues == fnArg.issues
      oneGroup == \A i, j \in DOMAIN issues : issues[i] = issues[j]
      listed == {k \in DOMAIN fnRet :
                   \E i \in DOMAIN issues : includes(fnRet[k], issueKey(i) \o ":")
                                            \/ includes(fnRet[k], issueKey(i) \o "**:")}
  IN (fnPc = "out" /\ oneGroup /\ Len(issues) > 3)
       => /\ Cardinality(listed) <= 3
          /\ \E k \in DOMAIN fnRet :
               includes(fnRet[k], "and " \o ToString(Len(issues) - 3) \o " more")

-----------------------------------------------------------------------------
(* One client greeting the server over and over on the default session.    *)

\* queries the deterministic rules classify as greetings
HistQueries == {"hi", "hey"}

\* the handler has sent its response and returned: its slot takes the next
\* request
Return(r) ==
  /\ req[r].pc = "done"
  /\ req' = [req EXCEPT ![r] = idleFrame]
  /\ UNCHANGED <<safeJqlTemplates, conversationMemory, fnVars>>

HistInit == Init /\ safeJqlTemplates = TemplatesFor(JIRA_PROJECT_KEY)

HistNext ==
  \/ \E r \in Requests, query \in HistQueries : Turn(r) /\ Receive(r, query, "default")
  \/ \E r \in Requests : Turn(r) /\ AnalyzeIntent(r)
  \/ \E r \in Requests : Turn(r) /\ Return(r)
  \/ Turn(0) /\ Reset("default")

HistSpec == HistInit /\ [][HistNext]_vars

-----------------------------------------------------------------------------
(* Two query requests in flight at once, on one session or on two, with    *)
(* resets in between. The default session is fresh or holds nine earlier   *)
(* greetings. Searches answer with at most one issue or are refused, the   *)
(* classification call fails or answers GREETING, and the synthesis call   *)
(* fails.                                                                  *)

PairInit ==
  /\ safeJqlTemplates = TemplatesFor(JIRA_PROJECT_KEY)
  /\ conversationMemory \in
       { <<>>,
         "default" :> [queries |-> [i \in 1..9 |-> "hi"], intents |-> [i \in 1..9 |-> "GREETING"],
                       lastResponse |-> Msg("", "greetingResponses", 1, 0), note |-> ""] }
  /\ req = [r \in 1..2 |-> idleFrame]
  /\ fnPc = "off"
  /\ fnArg = ""
  /\ fnRet = ""
  /\ fnRet2 = ""

PairBound ==
  \A r \in DOMAIN req :
    /\ \A i \in DOMAIN req[r].searches :
         req[r].searches[i].issues <= 1 /\ req[r].searches[i].error # "ECONNREFUSED"
    /\ req[r].intent \in {"", "GENERAL", "GREETING"}
    /\ req[r].jql \in {"", safeJqlTemplates.PROJECT_STATUS}

PairNext ==
  \/ \E r \in 1..2, query \in {"hi", "thanks a lot"}, sessionId \in {"default", "s1"} :
       Turn(r) /\ Receive(r, query, sessionId)
  \/ \E r \in 1..2 : Turn(r) /\ AnalyzeIntent(r) /\ PairBound'
  \/ \E r \in 1..2 : Turn(r) /\ Synthesize(r) /\ PairBound'
  \/ \E r \in 1..2 : Turn(r) /\ Execute(r) /\ PairBound'
  \/ \E r \in 1..2 : Turn(r) /\ Retry(r) /\ PairBound'
  \/ \E r \in 1..2 : Turn(r) /\ Render(r)
  \/ \E r \in 1..2 : Turn(r) /\ LastResort(r) /\ PairBound'
  \/ \E sessionId \in {"default", "s1"} : Turn(0) /\ Reset(sessionId)

PairSpec == PairInit /\ [][PairNext]_vars

\* C32: a step of a query request, or a reset, changes the session of its
\* own identifier at most: the query history, the intent history and the
\* last response of every other session stay as they were.
OtherSessionsUntouched ==
  [][LET changed == {s \in DOMAIN conversationMemory :
                       conversationMemory'[s] # conversationMemory[s]}
     IN /\ Cardinality(changed) <= 1
        /\ \A r \in DOMAIN req : req'[r] # req[r] => changed \subseteq {req'[r].sessionId}]_vars

\* session s1 still holds what its request left there after the default
\* session, used by the other request, was reset
OtherSessionsUntouchedWitness ==
  /\ DOMAIN conversationMemory = {"default", "s1"}
  /\ req[1].sessionId = "s1" /\ req[1].pc = "done"
  /\ req[2].sessionId = "default" /\ req[2].pc = "done"
  /\ conversationMemory["s1"].queries = <<"thanks a lot">>
  /\ conversationMemory["s1"].lastResponse = req[1].sent[1].message
  /\ conversationMemory["default"] = emptySession

\* C33: no session holds a recovery note while a request is suspended, and
\* a request carries the note (in hand, or before the message it sent) only
\* if its own retry search answered, also when two requests of one session
\* interleave.
NoteStaysInItsRequest ==
  /\ \A s \in DOMAIN conversationMemory : conversationMemory[s].note = ""
  /\ \A r \in DOMAIN req :
       LET f == req[r]
           retried == \E i \in DOMAIN f.searches : f.searches[i].at = "retry" /\ f.searches[i].ok
       IN /\ f.note # "" => retried
          /\ \A k \in DOMAIN f.sent : f.sent[k].message.note # "" => retried

\* two requests of the default session are about to render: the first one
\* after its retry, with the note, the second one after a first search that
\* answered, without it
NoteStaysInItsRequestWitness ==
  /\ req[1].sessionId = "default" /\ req[2].sessionId = "default"
  /\ req[1].pc = "render" /\ req[1].note = recoveryNote
  /\ req[2].pc = "render" /\ req[2].note = ""
  /\ Len(req[1].searches) = 2 /\ Len(req[2].searches) = 1

\* C35: when two requests of one session interleave, both histories stay
\* within 10 entries, and the query of a request is appended exactly once, in
\* the step that receives it, the oldest entry leaving in that same step when
\* the history held 10; no later step of a request touches the query history
HistoriesCappedOnceEach ==
  [][ /\ \A s \in DOMAIN conversationMemory' :
           /\ Len(conversationMemory'[s].queries) <= 10
           /\ Len(conversationMemory'[s].intents) <= 10
      /\ \A s \in DOMAIN conversationMemory' :
           LET old == IF s \in DOMAIN conversationMemory THEN conversationMemory[s].queries
                      ELSE <<>>
               new == conversationMemory'[s].queries
               received == {r \in DOMAIN req : /\ req[r].pc = "idle" /\ req'[r].pc # "idle"
                                               /\ req'[r].query # ""
                                               /\ req'[r].sessionId = s}
           IN IF received = {}
              THEN new = old \/ new = <<>>
              ELSE /\ Cardinality(received) = 1
                   /\ \A r \in received :
                        LET pushed == Append(old, req'[r].query)
                        IN new = IF Len(pushed) > 10
                                 THEN SubSeq(pushed, Len(pushed) - 9, Len(pushed))
                                 ELSE pushed ]_vars

\* the second request arrives while the first one waits for its
\* classification, in a session that held 9 queries: the history holds 10,
\* the two new queries last
HistoriesCappedOnceEachWitness ==
  /\ req[1].sessionId = "default" /\ req[2].sessionId = "default"
  /\ req[1].pc = "analyze" /\ req[2].pc = "analyze"
  /\ req[1].query = "thanks a lot" /\ req[2].query = "thanks a lot"
  /\ Len(conversationMemory["default"].queries) = 10
  /\ conversationMemory["default"].queries[8] = "hi"
  /\ conversationMemory["default"].queries[9] = "thanks a lot"
  /\ conversationMemory["default"].queries[10] = "thanks a lot"

-----------------------------------------------------------------------------
(* Properties of the handler.                                              *)

\* the searches of request r made at one place of the handler
searchesAt(r, at) == {i \in DOMAIN req[r].searches : req[r].searches[i].at = at}

\* texts a chat completion or a formatter of the handler produced
RenderedTexts == {"completion", "formattedResponse", "response", "openingPhrases"}

\* the pools and literals of stock messages
StockTexts ==
  {"greetingResponses", "conversationalResponses", "noResultsResponses", "relevantInfo",
   "friendlyResponses",
   "I'm here to help with your Jira queries. What would you like to know about your project?"}

\* C1: whatever the classifier call, the synthesis call, the searches and
\* the rendering call do, every response to a request with a non-empty query
\* has a success status and carries a rendered or a stock message.
ResponsesAreFriendly ==
  \A r \in Requests :
    \A i \in DOMAIN req[r].sent :
      req[r].query # ""
        => /\ req[r].sent[i].status = 200
           /\ req[r].sent[i].message.text \in RenderedTexts \cup StockTexts

\* every call failed: the classifier's, the generator's and the three searches
ResponsesAreFriendlyWitness ==
  \E r \in Requests :
    /\ req[r].query = "thanks a lot"
    /\ req[r].intent = "GENERAL"
    /\ req[r].jql = safeJqlTemplates.PROJECT_STATUS
    /\ \A i \in DOMAIN req[r].searches : ~req[r].searches[i].ok
    /\ Len(req[r].searches) = 3
    /\ Len(req[r].sent) = 1
    /\ req[r].sent[1].status = 200
    /\ req[r].sent[1].message.text = "friendlyResponses"

\* C2: with remote calls that always return or fail, every request that
\* arrives is answered in the end, and never answered twice.
EveryRequestAnsweredOnce ==
  \A r \in Requests :
    /\ [](req[r].pc # "idle" => <>(Len(req[r].sent) = 1))
    /\ [](Len(req[r].sent) <= 1)

\* C3: a request searches the simplified query at most once, and only right
\* after the search of its generated query was rejected; neither of the
\* searches of the execution step is made twice.
RetryAtMostOnce ==
  \A r \in Requests :
    /\ Cardinality(searchesAt(r, "first")) <= 1
    /\ Cardinality(searchesAt(r, "retry")) <= 1
    /\ Cardinality(searchesAt(r, "lastResort")) <= 1
    /\ \A i \in searchesAt(r, "retry") :
         /\ i > 1
         /\ req[r].searches[i - 1].at = "first"
         /\ ~req[r].searches[i - 1].ok

\* the simplified query was searched after a rejection
RetryAtMostOnceWitness ==
  \E r \in Requests :
    /\ req[r].pc = "done"
    /\ searchesAt(r, "retry") # {}
    /\ \E i \in searchesAt(r, "first") : ~req[r].searches[i].ok

\* C4: when the search of the generated query is rejected and the search of
\* the simplified query answers, the response carries the data of the latter
\* and its message begins with the recovery note.
RetryResultIsSent ==
  \A r \in Requests :
    \A i \in searchesAt(r, "retry") :
      req[r].searches[i].ok /\ req[r].pc = "done"
        => /\ Len(req[r].sent) = 1
           /\ req[r].sent[1].rawData = Data(i, req[r].searches[i].issues)
           /\ req[r].sent[1].message.note = recoveryNote

\* the retry found issues after a rejection and the response went out
RetryResultIsSentWitness ==
  \E r \in Requests :
    /\ req[r].pc = "done"
    /\ \E i \in searchesAt(r, "first") : ~req[r].searches[i].ok
    /\ \E i \in searchesAt(r, "retry") :
         /\ req[r].searches[i].ok
         /\ req[r].searches[i].issues > 0
         /\ req[r].sent[1].rawData.call = i
         /\ req[r].sent[1].message.note = recoveryNote

\* C5: when the search of the simplified query is rejected too, the handler
\* makes exactly one more search, of the project's issues by recency and at
\* most 5 of them; the response lists the issues it found, or is a stock
\* message when it found none or was rejected.
LastResortAnswers ==
  \A r \in Requests :
    \A i \in searchesAt(r, "retry") :
      ~req[r].searches[i].ok /\ req[r].pc = "done"
        => /\ searchesAt(r, "lastResort") = {i + 1}
           /\ Len(req[r].searches) = i + 1
           /\ LET last == req[r].searches[i + 1]
                  sent == req[r].sent
              IN /\ includes(last.jql, "project = " \o JIRA_PROJECT_KEY)
                 /\ includes(last.jql, "ORDER BY updated DESC")
                 /\ last.maxResults = 5
                 /\ Len(sent) = 1
                 /\ sent[1].status = 200
                 /\ IF last.ok /\ last.issues > 0
                    THEN sent[1].message.text = "relevantInfo"
                           /\ sent[1].message.listed = last.issues
                    ELSE sent[1].message.text = "friendlyResponses"

\* the last search found issues and the response lists them
LastResortAnswersWitness ==
  \E r \in Requests :
    /\ req[r].pc = "done"
    /\ \E i \in searchesAt(r, "retry") : ~req[r].searches[i].ok
    /\ \E i \in searchesAt(r, "lastResort") :
         /\ req[r].searches[i].ok
         /\ req[r].searches[i].issues = MaxIssues
         /\ req[r].sent[1].message.listed = MaxIssues

\* C12: the query history and the intent history of a session never hold
\* more than 10 entries, and every step that adds an entry keeps the most
\* recent ten in the order they arrived (the oldest one leaves): a step
\* leaves a history as it is, empties it, or appends one entry and keeps the
\* last ten.
HistoryKeepsLatestTen ==
  /\ [](\A s \in DOMAIN conversationMemory :
          /\ Len(conversationMemory[s].queries) <= 10
          /\ Len(conversationMemory[s].intents) <= 10)
  /\ [][LET lastTen(list) ==
              IF Len(list) > 10 THEN SubSeq(list, Len(list) - 9, Len(list)) ELSE list
            AppendsLatest(before, after) ==
              \/ after = before
              \/ after = <<>>
              \/ \E x \in Queries \cup ReachedIntents : after = lastTen(Append(before, x))
        IN \A s \in DOMAIN conversationMemory' :
             LET old == IF s \in DOMAIN conversationMemory THEN conversationMemory[s]
                        ELSE emptySession
             IN /\ AppendsLatest(old.queries, conversationMemory'[s].queries)
                /\ AppendsLatest(old.intents, conversationMemory'[s].intents)]_vars

\* ten requests were classified since the last reset and one more has been
\* received: the query history has taken its eleventh entry
HistoryKeepsLatestTenWitness ==
  \E r \in Requests :
    /\ req[r].pc = "analyze"
    /\ req[r].sessionId = "default"
    /\ Len(conversationMemory["default"].intents) = 10
    /\ Len(conversationMemory["default"].queries) = 10
    /\ conversationMemory["default"].queries[10] = req[r].query
    /\ conversationMemory["default"].queries[1] # req[r].query

\* C13: a reset request for a session that exists leaves that session with
\* an empty query history, an empty intent history and no last response.
ResetEmptiesSession ==
  [][\A s \in DOMAIN conversationMemory :
       Reset(s) => /\ conversationMemory'[s].queries = <<>>
                   /\ conversationMemory'[s].intents = <<>>
                   /\ conversationMemory'[s].lastResponse = null]_vars

\* a request was answered with a stored message, and the session it wrote
\* to is empty again
ResetEmptiesSessionWitness ==
  \E r \in Requests :
    /\ req[r].pc = "done"
    /\ req[r].intent # ""
    /\ Len(req[r].sent) = 1
    /\ req[r].sent[1].message.text = "completion"
    /\ req[r].sessionId \in DOMAIN conversationMemory
    /\ conversationMemory[req[r].sessionId] = emptySession

\* C15: no query a request sends to the search endpoint holds the keyword
\* LIMIT (the word, in any case, outside double-quoted text), whatever the
\* completion of generateJQL answered.
NoLimitKeywordSearched ==
  LET Keyword(jql, i) ==
        /\ LitAt(toLowerCase(jql), i, "limit")
        /\ WordBoundary(jql, i) /\ WordBoundary(jql, i + 5)
        /\ Cardinality({k \in 1..(i - 1) : CharAt(jql, k) = "\""}) % 2 = 0
  IN \A r \in Requests :
       \A n \in DOMAIN req[r].searches :
         \A i \in 1..Len(req[r].searches[n].jql) : ~Keyword(req[r].searches[n].jql, i)

\* C21: every template of safeJqlTemplates names the configured project
\* key, the one sanitizeJQL and the issue-key patterns read when a request is
\* served.
TemplatesUseConfiguredKey ==
  \A name \in DOMAIN safeJqlTemplates :
    LitAt(safeJqlTemplates[name], 1, "project = " \o JIRA_PROJECT_KEY \o " ")

\* C22: the simplified query is searched only after the endpoint refused the
\* generated query as a bad request; when the endpoint could not be reached
\* the request goes on to the last-resort query without a retry.
RetryOnlyAfterBadRequest ==
  \A r \in Requests :
    \A i \in searchesAt(r, "first") :
      req[r].searches[i].error = "ECONNREFUSED"
        => /\ searchesAt(r, "retry") = {}
           /\ req[r].pc # "retry"

\* the queries generateJQL makes of the completions (lines 466-470)
ModelDerived == {sanitizeJQL(trim(ai.text)) : ai \in {c \in JqlCompletions : c.ok}}

\* C23: the query of the retry is a template of safeJqlTemplates or the
\* recent-updates query, picked by the intent of the request (PROJECT_STATUS,
\* TIMELINE, BLOCKERS, ASSIGNED_TASKS, WORKLOAD and SPRINT have their own, TASK_LIST
\* the open or closed tasks when the query names them, every other intent the
\* recent-updates query); it never is the text a completion gave.
RetryQueryIsStatic ==
  \A r \in Requests :
    \A i \in searchesAt(r, "retry") :
      LET jql == req[r].searches[i].jql
          intent == req[r].intent
          T == safeJqlTemplates
      IN /\ jql \in {T[name] : name \in DOMAIN T} \cup {recentQuery}
         /\ jql \notin ModelDerived
         /\ CASE intent = "PROJECT_STATUS" -> jql = T.PROJECT_STATUS
              [] intent = "TIMELINE" -> jql = T.TIMELINE
              [] intent = "BLOCKERS" -> jql = T.HIGH_PRIORITY
              [] intent \in {"ASSIGNED_TASKS", "WORKLOAD"} -> jql = T.ASSIGNED_TASKS
              [] intent = "SPRINT" -> jql = T.CURRENT_SPRINT
              [] intent = "TASK_LIST" -> jql \in {T.OPEN_TASKS, T.CLOSED_TASKS, recentQuery}
              [] OTHER -> jql = recentQuery

\* the sanitized text of a completion was refused and the retry searched the
\* recent-updates query
RetryQueryIsStaticWitness ==
  \E r \in Requests :
    /\ req[r].intent = "GENERAL"
    /\ \E i \in searchesAt(r, "first") :
         /\ ~req[r].searches[i].ok
         /\ req[r].searches[i].jql = "project = \"NIHK \"and\"\" (status = Open)"
    /\ \E i \in searchesAt(r, "retry") : req[r].searches[i].jql = recentQuery

\* C25: an answered query request appends exactly one intent to the intent
\* history of its session: once the first request of a session that has not
\* been reset since is answered, the session holds one query and one intent.
AnsweredAppendsIntent ==
  \A r \in Requests :
    LET f == req[r]
    IN (/\ f.sent # <<>>
        /\ f.sent[1].status = 200
        /\ conversationMemory[f.sessionId].queries = <<f.query>>)
         => Len(conversationMemory[f.sessionId].intents) = 1


\* C26: after a query request that sent a message, the last response stored
\* in its session is that message, on every path of the handler (as long as
\* the session has not been reset since the request arrived).
LastResponseIsSentMessage ==
  \A r \in Requests :
    LET f == req[r]
    IN (/\ f.sent # <<>>
        /\ f.sent[1].status = 200
        /\ conversationMemory[f.sessionId].queries = <<f.query>>)
         => conversationMemory[f.sessionId].lastResponse = f.sent[1].message

\* C30: a request whose classified intent is GREETING is answered with one
\* of the three canned greetings and nothing else: no query was synthesized
\* for it and no search was made.
GreetingIsCanned ==
  \A r \in Requests :
    LET f == req[r]
    IN f.intent = "GREETING"
         => /\ f.pc = "done"
            /\ f.jql = ""
            /\ f.searches = <<>>
            /\ \E pick \in 1..3 :
                 f.sent = <<json(Msg("", "greetingResponses", pick, 0), NoData, "GREETING", "")>>

\* a text no rule classifies was called a greeting by the completion and
\* got the second canned greeting
GreetingIsCannedWitness ==
  \E r \in Requests :
    /\ req[r].query = "thanks a lot"
    /\ req[r].intent = "GREETING"
    /\ req[r].sent = <<json(Msg("", "greetingResponses", 2, 0), NoData, "GREETING", "")>>

\* C31: a request whose normalized query is one of the canonical phrases is
\* answered without the intent classification being run, and the query it
\* searches, if any, is the template of the phrase.
CanonicalBypassesClassifier ==
  \A r \in Requests :
    LET f == req[r]
        T == safeJqlTemplates
        canonical ==
          {"show project status", "show project timeline", "show upcoming deadlines",
           "show project blockers", "show high risk items", "show team workload",
           "show open tasks", "show closed tasks", "show high priority tasks",
           "show unassigned tasks", "show recent updates", "show current sprint",
           "show most recently updated task"}
    IN f.processed \in canonical
         => /\ f.intent = ""
            /\ f.jql \in {""} \cup {T[name] : name \in DOMAIN T}

\* C34: in every state the intent history of a session is no longer than
\* its query history, also when the session is reset while one of its
\* requests waits for a remote call.
IntentsWithinQueries ==
  \A s \in DOMAIN conversationMemory :
    Len(conversationMemory[s].intents) <= Len(conversationMemory[s].queries)

\* C36: a response of the main pipeline that reports a query in its meta
\* reports the query of the search whose result set it returns, also when
\* that search was the retry
ReportedJqlProducedData ==
  \A r \in DOMAIN req :
    \A i \in DOMAIN req[r].sent :
      LET body == req[r].sent[i]
      IN body.jql # "" /\ body.rawData.call > 0
           => req[r].searches[body.rawData.call].jql = body.jql

\* C39: a session that exists for an identifier exists in every later state
\* (a reset puts a new entry in its place, nothing removes one), so a request
\* that goes on after a suspension finds the session of its identifier
SessionNeverRemoved ==
  [][ /\ DOMAIN conversationMemory \subseteq DOMAIN conversationMemory'
      /\ \A r \in DOMAIN req :
           req'[r].pc \notin {"idle", "done", "rejected"}
             => req'[r].sessionId \in DOMAIN conversationMemory' ]_vars

\* the session of a request was reset while the request waited for its
\* search: the entry is there, without the query the request had put in it
SessionNeverRemovedWitness ==
  /\ req[1].pc = "render"
  /\ req[1].sessionId = "s1"
  /\ "s1" \in DOMAIN conversationMemory
  /\ conversationMemory["s1"].queries = <<>>
  /\ conversationMemory["s1"].intents = <<>>

=============================================================================
